---- MODULE Spec2Model ----
(***************************************************************************)
(* A model of the perf-tests pipeline of splunk/s3-tests and of its pytest *)
(* collection hook:                                                        *)
(*   reparse_warp_raw.py  extract_json_from_raw, parse_warp_v2,            *)
(*                        parse_raw_filename, reparse_run_dir, main        *)
(*   report.py            parse_size_to_bytes, load_data,                  *)
(*                        aggregate_iterations, generate_comparison_tables,*)
(*                        calculate_summary_stats                          *)
(*   conftest.py          pytest_collection_modifyitems                    *)
(*                                                                         *)
(* Python values are tagged records (field t).  A raised exception is the  *)
(* value Raise, which every operation propagates.  Numbers are exact       *)
(* rationals n/d (d > 0, lowest terms); NaN is a value of its own.  Text   *)
(* is a sequence of lexemes: a punctuation character, a run of letters, or *)
(* a decimal literal.                                                      *)
(***************************************************************************)
EXTENDS Integers, Sequences, FiniteSets, TLC

VARIABLES pc, content, result, raw, target, queue, entries, last,
          summary, targets, df, df_agg, comparison_tables, summary_stats,
          call, returned

\* the state of reparse_warp_raw.py and the state of report.py
collect == <<content, result, raw, target, queue, entries, last>>
report == <<summary, targets, df, df_agg, comparison_tables, summary_stats>>

\* the arguments and the return value of parse_raw_filename, parse_warp_v2
\* or pytest_collection_modifyitems when it is called on its own
units == <<call, returned>>

vars == <<pc, collect, report, units>>

(***************************************************************************)
(* Python values                                                           *)
(***************************************************************************)
Abs(x) == IF x < 0 THEN -x ELSE x

RECURSIVE Gcd(_, _)
Gcd(a, b) == IF b = 0 THEN a ELSE Gcd(b, a % b)

None == [t |-> "none"]
Raise == [t |-> "raise"]
NaN == [t |-> "nan"]
IsNaN(x) == x.t = "nan"
Bool(b) == [t |-> "bool", v |-> b]
Str(s) == [t |-> "str", v |-> s]
Arr(s) == [t |-> "arr", v |-> s]
Obj(s) == [t |-> "obj", v |-> s]

\* the rational n/d in lowest terms with a positive denominator
Num(n, d) ==
    LET g == Gcd(Abs(n), Abs(d))
        sg == IF d < 0 THEN -1 ELSE 1
    IN  [t |-> "num", n |-> sg * (n \div g), d |-> sg * (d \div g)]

IntNum(n) == [t |-> "num", n |-> n, d |-> 1]

IsRaise(x) == x.t = "raise"
IsDict(x) == x.t = "obj"
IsList(x) == x.t = "arr"

\* bool(x): None, False, 0, "", [] and {} are false
Truthy(x) ==
    CASE x.t = "none" -> FALSE
      [] x.t = "bool" -> x.v
      [] x.t = "num" -> x.n # 0
      [] x.t = "nan" -> TRUE
      [] x.t \in {"str", "arr", "obj"} -> Len(x.v) > 0
      [] OTHER -> FALSE

\* a or b
PyOrSecond(a, b) == IF IsRaise(a) THEN Raise ELSE b

PyOr(a, b) == IF IsRaise(a) THEN Raise ELSE IF Truthy(a) THEN a ELSE b

(***************************************************************************)
(* Text                                                                    *)
(***************************************************************************)
P(c) == [k |-> "p", s |-> c, n |-> 0, d |-> 1]
W(w) == [k |-> "w", s |-> w, n |-> 0, d |-> 1]
N(n, d) == [k |-> "n", s |-> "", n |-> n, d |-> d]

Quote == P("\"")
Key(w) == <<W(w)>>

\* one key of a dict literal
KV(w, v) == [k |-> Key(w), v |-> v]

\* d[k] = v on an insertion-ordered dict: a present key keeps its place
SetKey(kvs, k, v) ==
    IF \E i \in 1..Len(kvs) : kvs[i].k = k
    THEN [i \in 1..Len(kvs) |-> IF kvs[i].k = k THEN [k |-> k, v |-> v] ELSE kvs[i]]
    ELSE Append(kvs, [k |-> k, v |-> v])

\* x.get(k) for a key given as text: None when the key is absent,
\* AttributeError when x is not a dict
PyGetKey(x, k) ==
    IF ~IsDict(x) THEN Raise
    ELSE IF \E i \in 1..Len(x.v) : x.v[i].k = k
    THEN x.v[CHOOSE i \in 1..Len(x.v) : x.v[i].k = k].v
    ELSE None

\* x.get(k) for a key that is one word
PyGet(x, w) == PyGetKey(x, Key(w))

\* x.get(k, 0)
PyGet0(x, w) ==
    IF ~IsDict(x) THEN Raise
    ELSE IF \E i \in 1..Len(x.v) : x.v[i].k = Key(w) THEN PyGet(x, w) ELSE IntNum(0)

(***************************************************************************)
(* json.loads and json.dumps                                               *)
(***************************************************************************)
ParseFail == [ok |-> FALSE, val |-> None, pos |-> 0]
ParseOk(v, p) == [ok |-> TRUE, val |-> v, pos |-> p]


RECURSIVE SkipWs(_, _)
SkipWs(s, i) == IF i <= Len(s) /\ s[i] = P(" ") THEN SkipWs(s, i + 1) ELSE i

\* s[i] is the opening quote: the string runs to the next quote
ParseString(s, i) ==
    LET js == {j \in (i + 1)..Len(s) : s[j] = Quote}
    IN  IF js = {} THEN ParseFail
        ELSE LET j == CHOOSE m \in js : \A o \in js : m <= o
             IN  ParseOk(Str(SubSeq(s, i + 1, j - 1)), j + 1)

RECURSIVE ParseValue(_, _)
RECURSIVE ParseMembers(_, _, _)
RECURSIVE ParseElements(_, _, _)

\* i is where a key must start; acc holds the members read so far
ParseMembers(s, i, acc) ==
    IF i > Len(s) \/ s[i] # Quote THEN ParseFail
    ELSE LET key == ParseString(s, i)
         IN  IF ~key.ok THEN ParseFail
             ELSE LET c == SkipWs(s, key.pos)
                  IN  IF c > Len(s) \/ s[c] # P(":") THEN ParseFail
                      ELSE LET v == ParseValue(s, SkipWs(s, c + 1))
                           IN  IF ~v.ok THEN ParseFail
                               ELSE LET acc2 == SetKey(acc, key.val.v, v.val)
                                        e == SkipWs(s, v.pos)
                                    IN  IF e > Len(s) THEN ParseFail
                                        ELSE IF s[e] = P("}") THEN ParseOk(Obj(acc2), e + 1)
                                        ELSE IF s[e] = P(",")
                                        THEN ParseMembers(s, SkipWs(s, e + 1), acc2)
                                        ELSE ParseFail

\* i is where an element must start; acc holds the elements read so far
ParseElements(s, i, acc) ==
    LET v == ParseValue(s, i)
    IN  IF ~v.ok THEN ParseFail
        ELSE LET e == SkipWs(s, v.pos)
             IN  IF e > Len(s) THEN ParseFail
                 ELSE IF s[e] = P("]") THEN ParseOk(Arr(Append(acc, v.val)), e + 1)
                 ELSE IF s[e] = P(",")
                 THEN ParseElements(s, SkipWs(s, e + 1), Append(acc, v.val))
                 ELSE ParseFail

ParseValue(s, i) ==
    IF i > Len(s) THEN ParseFail
    ELSE LET c == s[i]
         IN  CASE c = Quote -> ParseString(s, i)
               [] c = P("{") ->
                    LET j == SkipWs(s, i + 1)
                    IN  IF j <= Len(s) /\ s[j] = P("}") THEN ParseOk(Obj(<<>>), j + 1)
                        ELSE ParseMembers(s, j, <<>>)
               [] c = P("[") ->
                    LET j == SkipWs(s, i + 1)
                    IN  IF j <= Len(s) /\ s[j] = P("]") THEN ParseOk(Arr(<<>>), j + 1)
                        ELSE ParseElements(s, j, <<>>)
               [] c.k = "n" -> ParseOk(Num(c.n, c.d), i + 1)
               [] c = W("null") -> ParseOk(None, i + 1)
               [] c = W("true") -> ParseOk(Bool(TRUE), i + 1)
               [] c = W("false") -> ParseOk(Bool(FALSE), i + 1)
               [] OTHER -> ParseFail

\* json.loads(s): one value, only whitespace around it; a JSONDecodeError
\* is the result with ok = FALSE
json_loads(s) ==
    LET v == ParseValue(s, SkipWs(s, 1))
    IN  IF v.ok /\ SkipWs(s, v.pos) > Len(s) THEN v ELSE ParseFail

RECURSIVE Dumps(_)
RECURSIVE DumpsMembers(_, _)
RECURSIVE DumpsElements(_, _)

DumpsMembers(kvs, i) ==
    IF i > Len(kvs) THEN <<>>
    ELSE (IF i > 1 THEN <<P(","), P(" ")>> ELSE <<>>)
         \o <<Quote>> \o kvs[i].k \o <<Quote, P(":"), P(" ")>>
         \o Dumps(kvs[i].v) \o DumpsMembers(kvs, i + 1)

DumpsElements(vs, i) ==
    IF i > Len(vs) THEN <<>>
    ELSE (IF i > 1 THEN <<P(","), P(" ")>> ELSE <<>>)
         \o Dumps(vs[i]) \o DumpsElements(vs, i + 1)

\* json.dumps(v)
Dumps(v) ==
    CASE v.t = "none" -> <<W("null")>>
      [] v.t = "bool" -> <<W(IF v.v THEN "true" ELSE "false")>>
      [] v.t = "num" -> <<N(v.n, v.d)>>
      [] v.t = "nan" -> <<W("NaN")>>
      [] v.t = "str" -> <<Quote>> \o v.v \o <<Quote>>
      [] v.t = "arr" -> <<P("[")>> \o DumpsElements(v.v, 1) \o <<P("]")>>
      [] v.t = "obj" -> <<P("{")>> \o DumpsMembers(v.v, 1) \o <<P("}")>>

(***************************************************************************)
(* reparse_warp_raw.extract_json_from_raw                                  *)
(***************************************************************************)
\* content.find(c): the first index of c, 0 when there is none
FindLast(s, c) ==
    IF \E i \in 1..Len(s) : s[i] = c
    THEN CHOOSE i \in 1..Len(s) : s[i] = c /\ \A j \in (i + 1)..Len(s) : s[j] # c
    ELSE 0

Find(s, c) ==
    IF \E i \in 1..Len(s) : s[i] = c
    THEN CHOOSE i \in 1..Len(s) : s[i] = c /\ \A j \in 1..(i - 1) : s[j] # c
    ELSE 0

\* the brace-balance loop (lines 35-40) over s[lo..hi] from state st, run
\* as two halves; one index is one pass of the loop body
RECURSIVE BraceLoop(_, _, _, _)
BraceLoop(s, lo, hi, st) ==
    IF lo > hi THEN st
    ELSE IF lo = hi
    THEN (IF s[lo] = P("{") THEN [depth |-> st.depth + 1, end |-> st.end]
          ELSE IF s[lo] = P("}")
          THEN [depth |-> st.depth - 1, end |-> IF st.depth - 1 = 0 THEN lo ELSE st.end]
          ELSE st)
    ELSE LET mid == (lo + hi) \div 2
         IN  CHOOSE r \in { BraceLoop(s, mid + 1, hi, l) :
                             l \in {BraceLoop(s, lo, mid, st)} } : TRUE

\* lines 32-40: the index noted at a closing brace that brings depth to 0
\* (0 for Python's -1); the loop runs to the end of the text
BraceScan(s) == BraceLoop(s, 1, Len(s), [depth |-> 0, end |-> 0]).end

extract_json_from_raw(text) ==
    LET start == Find(text, P("{"))
    IN  IF start = 0 THEN None
        ELSE LET json_str == SubSeq(text, start, Len(text))
                 direct == json_loads(json_str)
                 end == BraceScan(json_str)
                 cut == json_loads(SubSeq(json_str, 1, end))
             IN  IF direct.ok THEN direct.val
                 ELSE IF end >= 1 /\ cut.ok THEN cut.val
                 ELSE None

(***************************************************************************)
(* Python numbers: float(), int(), division                                *)
(***************************************************************************)
IsNumeric(x) == x.t \in {"num", "nan", "bool"}

\* the number a bool stands for in arithmetic
AsNum(x) == IF x.t = "bool" THEN IntNum(IF x.v THEN 1 ELSE 0) ELSE x

\* str.strip(), on a sequence whose blank element is ws
RECURSIVE Strip(_, _)
Strip(s, ws) ==
    IF s # <<>> /\ Head(s) = ws THEN Strip(Tail(s), ws)
    ELSE IF s # <<>> /\ s[Len(s)] = ws THEN Strip(SubSeq(s, 1, Len(s) - 1), ws)
    ELSE s

\* float(x): ValueError for a string that is no number, TypeError for
\* None, a list or a dict
PyFloat(x) ==
    CASE x.t \in {"num", "nan"} -> x
      [] x.t = "bool" -> AsNum(x)
      [] x.t = "str" ->
            LET s == Strip(x.v, P(" "))
            IN  IF Len(s) = 1 /\ s[1].k = "n" THEN Num(s[1].n, s[1].d)
                ELSE IF s \in {<<W("nan")>>, <<W("NaN")>>} THEN NaN
                ELSE Raise
      [] OTHER -> Raise

\* truncation toward zero
Trunc(x) == IF x.n >= 0 THEN x.n \div x.d ELSE -((-x.n) \div x.d)

\* int(x): a string must be an integer literal; NaN cannot be converted
PyInt(x) ==
    CASE x.t = "num" -> IntNum(Trunc(x))
      [] x.t = "bool" -> AsNum(x)
      [] x.t = "str" ->
            LET s == Strip(x.v, P(" "))
            IN  IF Len(s) = 1 /\ s[1].k = "n" /\ s[1].d = 1 THEN IntNum(s[1].n)
                ELSE Raise
      [] OTHER -> Raise

\* a / b on rationals, b # 0, reduced before multiplying; NaN gives NaN
NumDiv(a, b) ==
    IF IsNaN(a) \/ IsNaN(b) THEN NaN
    ELSE LET g1 == Gcd(Abs(a.n), Abs(b.n))
             g2 == Gcd(a.d, b.d)
         IN  Num((a.n \div g1) * (b.d \div g2), (a.d \div g2) * (b.n \div g1))

PyDivDropped(a, b) == IF ~IsNumeric(a) \/ ~IsNumeric(b) THEN Raise ELSE AsNum(a)

\* a / b: TypeError unless both are numbers, ZeroDivisionError for b = 0
PyDiv(a, b) ==
    IF ~IsNumeric(a) \/ ~IsNumeric(b) THEN Raise
    ELSE IF AsNum(b).t = "num" /\ AsNum(b).n = 0 THEN Raise
    ELSE IF a.t = "nan" \/ b.t = "nan" THEN NaN
    ELSE NumDiv(AsNum(a), AsNum(b))

\* (a if c else b)
PyIf(c, a, b) == IF IsRaise(c) THEN Raise ELSE IF Truthy(c) THEN a ELSE b

AnyRaise(vs) == \E i \in 1..Len(vs) : IsRaise(vs[i])

(***************************************************************************)
(* reparse_warp_raw.parse_warp_v2                                          *)
(***************************************************************************)
LowerCase == <<"a", "b", "c", "d", "e", "f", "g", "h", "i", "j", "k", "l", "m",
               "n", "o", "p", "q", "r", "s", "t", "u", "v", "w", "x", "y", "z">>
UpperCase == <<"A", "B", "C", "D", "E", "F", "G", "H", "I", "J", "K", "L", "M",
               "N", "O", "P", "Q", "R", "S", "T", "U", "V", "W", "X", "Y", "Z">>
DigitChars == <<"0", "1", "2", "3", "4", "5", "6", "7", "8", "9">>

Range(f) == {f[i] : i \in DOMAIN f}
IsLetter(c) == c \in Range(LowerCase) \cup Range(UpperCase)
IsDigit(c) == c \in Range(DigitChars)
IndexOf(f, c) == CHOOSE i \in DOMAIN f : f[i] = c

\* str.upper() and str.lower(), by character
Upper(s) ==
    [i \in 1..Len(s) |->
        IF s[i] \in Range(LowerCase) THEN UpperCase[IndexOf(LowerCase, s[i])] ELSE s[i]]
Lower(s) ==
    [i \in 1..Len(s) |->
        IF s[i] \in Range(UpperCase) THEN LowerCase[IndexOf(UpperCase, s[i])] ELSE s[i]]

\* a string of characters as text: one lexeme per character
CharsKey(s) == [i \in 1..Len(s) |-> P(s[i])]

EmptyDict == Obj(<<>>)
Zero == IntNum(0)
NoLatency == [t |-> "lat", avg |-> Zero, p50 |-> Zero, p90 |-> Zero, p99 |-> Zero]

\* the four latency values, or the exception raised reading one of them
LatencySwapped(avg, p50, p90, p99) ==
    IF AnyRaise(<<avg, p50, p90, p99>>) THEN Raise
    ELSE [t |-> "lat", avg |-> avg, p50 |-> p90, p90 |-> p50, p99 |-> p99]

Latency(avg, p50, p90, p99) ==
    IF AnyRaise(<<avg, p50, p90, p99>>) THEN Raise
    ELSE [t |-> "lat", avg |-> avg, p50 |-> p50, p90 |-> p90, p99 |-> p99]

\* lines 70-88: only the first client of the breakdown is looked at; its
\* segments are scanned in order up to the first one with a first_byte
\* block or a dur_avg_millis value
ClientLatency(req_by_client) ==
    LET RECURSIVE ScanSegments(_, _)
        ScanSegments(segs, i) ==
            IF i > Len(segs) THEN NoLatency
            ELSE LET s == PyOr(PyGet(segs[i], "single_sized_requests"), EmptyDict)
                     fb == PyOr(PyGet(s, "first_byte"), EmptyDict)
                     dur_avg == PyGet(s, "dur_avg_millis")
                 IN  IF IsRaise(fb) THEN Raise
                     ELSE IF Truthy(fb)
                     THEN Latency(PyFloat(PyOr(PyGet(fb, "average_millis"), Zero)),
                                  PyFloat(PyOr(PyGet(fb, "median_millis"), Zero)),
                                  PyFloat(PyOr(PyGet(fb, "p90_millis"), Zero)),
                                  PyFloat(PyOr(PyGet(fb, "p99_millis"), Zero)))
                     ELSE IF dur_avg # None
                     THEN Latency(PyFloat(dur_avg),
                                  PyFloat(PyOr(PyGet(s, "dur_median_millis"), PyFloat(dur_avg))),
                                  PyFloat(PyOr(PyGet(s, "dur_90_millis"), Zero)),
                                  PyFloat(PyOr(PyGet(s, "dur_99_millis"), Zero)))
                     ELSE ScanSegments(segs, i + 1)
    IN  IF IsRaise(req_by_client) THEN Raise
        ELSE IF ~IsDict(req_by_client) \/ Len(req_by_client.v) = 0 THEN NoLatency
        ELSE LET segments == req_by_client.v[1].v
             IN  ScanSegments(IF IsList(segments) THEN segments.v ELSE <<segments>>, 1)

\* line 68
ErrorRateSwapped(total_errors, total_requests) ==
    PyIf(total_errors, PyDiv(total_requests, total_errors), Zero)

ErrorRate(total_errors, total_requests) ==
    PyIf(total_requests, PyDiv(total_errors, total_requests), Zero)

parse_warp_v2(data, operation) ==
    LET total == PyOr(PyGet(data, "total"), EmptyDict)
        by_op == PyOr(PyGet(data, "by_op_type"), EmptyDict)
        op_block0 == IF IsDict(by_op) THEN PyGetKey(by_op, CharsKey(Upper(operation)))
                     ELSE IF IsRaise(by_op) THEN Raise ELSE EmptyDict
        op_block == PyIf(op_block0, op_block0, total)
        thr == PyOr(PyOr(PyGet(total, "throughput"), PyGet(op_block, "throughput")), EmptyDict)
        duration_millis == PyOr(PyGet(thr, "measure_duration_millis"), Zero)
        duration_sec == PyIf(duration_millis, PyDiv(duration_millis, IntNum(1000)), Zero)
        bytes_val == PyFloat(PyOr(PyOr(PyGet(thr, "bytes"), PyGet(total, "total_bytes")), Zero))
        total_requests ==
            PyInt(PyOr(PyOr(PyGet(total, "total_requests"), PyGet(total, "total_objects")), Zero))
        total_errors == PyInt(PyOr(PyGet(total, "total_errors"), Zero))
        ops0 == PyOr(PyGet(thr, "ops"), PyGet(thr, "objects"))
        ops1 == IF AnyRaise(<<ops0, total_requests, duration_sec>>) THEN Raise
                ELSE IF ops0 = None /\ Truthy(total_requests) /\ Truthy(duration_sec)
                THEN total_requests ELSE ops0
        ops_val == PyFloat(PyOr(ops1, Zero))
        throughput_mbps == PyIf(duration_sec, PyDiv(PyDiv(bytes_val, IntNum(1024 * 1024)), duration_sec), Zero)
        ops_per_sec == PyIf(duration_sec, PyDiv(ops_val, duration_sec), Zero)
        error_rate == ErrorRate(total_errors, total_requests)
        lat == ClientLatency(PyOr(PyOr(PyGet(op_block, "requests_by_client"),
                                       PyGet(total, "requests_by_client")), EmptyDict))
    IN  IF AnyRaise(<<total, by_op, op_block, thr, duration_millis, duration_sec, bytes_val,
                      total_requests, total_errors, ops_val, throughput_mbps, ops_per_sec,
                      error_rate, lat>>)
        THEN Raise
        ELSE [t |-> "metrics",
              throughput_mbps |-> throughput_mbps,
              ops_per_sec |-> ops_per_sec,
              avg_latency_ms |-> lat.avg,
              p50_latency_ms |-> lat.p50,
              p90_latency_ms |-> lat.p90,
              p99_latency_ms |-> lat.p99,
              total_operations |-> total_requests,
              errors |-> total_errors,
              error_rate |-> error_rate]

(***************************************************************************)
(* reparse_warp_raw.parse_raw_filename                                     *)
(* A file name is a sequence of one-character strings.                     *)
(***************************************************************************)
DotJson == <<".", "j", "s", "o", "n">>

AllDigits(s) == Len(s) >= 1 /\ \A i \in 1..Len(s) : IsDigit(s[i])

\* int(s) for a run of decimal digits
RECURSIVE DecVal(_)
DecVal(s) ==
    IF s = <<>> THEN 0
    ELSE DecVal(SubSeq(s, 1, Len(s) - 1)) * 10 + (IndexOf(DigitChars, s[Len(s)]) - 1)

\* name[j..] is _c<digits>_i<digits>.json, the second run starting at q
TailAt(name, j, q) ==
    /\ j + 1 <= Len(name) /\ name[j] = "_" /\ name[j + 1] = "c"
    /\ q - 2 >= j + 3 /\ q <= Len(name) - Len(DotJson)
    /\ AllDigits(SubSeq(name, j + 2, q - 3))
    /\ name[q - 2] = "_" /\ name[q - 1] = "i"
    /\ AllDigits(SubSeq(name, q, Len(name) - Len(DotJson)))
    /\ SubSeq(name, Len(name) - Len(DotJson) + 1, Len(name)) = DotJson

\* the length of the run of letters the name starts with
LeadingLetters(name) ==
    LET stops == {i \in 1..Len(name) : ~IsLetter(name[i])}
    IN  IF stops = {} THEN Len(name)
        ELSE (CHOOSE i \in stops : \A o \in stops : i <= o) - 1

\* FILENAME_RE = ^([a-zA-Z]+)_(.+)_c(\d+)_i(\d+)\.json$ : the splits
\* <<a, j, q>> with group 1 = name[1..a], group 2 = name[a+2..j-1],
\* group 3 = name[j+2..q-3] and group 4 = name[q..] up to .json
FilenameSplits(name) ==
    LET a == LeadingLetters(name)
    IN  IF a = 0 \/ a + 1 > Len(name) \/ name[a + 1] # "_" THEN {}
        ELSE { sp \in {a} \X ((a + 3)..Len(name)) \X ((a + 8)..Len(name)) :
                 /\ TailAt(name, sp[2], sp[3])
                 /\ \A i \in (a + 2)..(sp[2] - 1) : name[i] # "\n" }

\* the split the regex engine finds has group 2 as long as it can be; $
\* matches at the end of the name and before a line feed that ends it
parse_raw_filename(name) ==
    LET text == IF Len(name) > 0 /\ name[Len(name)] = "\n"
                THEN SubSeq(name, 1, Len(name) - 1) ELSE name
        splits == FilenameSplits(text)
    IN  IF splits = {} THEN None
        ELSE LET sp == CHOOSE x \in splits : \A o \in splits : x[2] >= o[2]
             IN  [t |-> "info",
                  operation |-> Lower(SubSeq(text, 1, sp[1])),
                  size |-> SubSeq(text, sp[1] + 2, sp[2] - 1),
                  concurrency |-> DecVal(SubSeq(text, sp[2] + 2, sp[3] - 3)),
                  iteration |-> DecVal(SubSeq(text, sp[3], Len(text) - Len(DotJson)))]

(***************************************************************************)
(* reparse_warp_raw.reparse_run_dir                                        *)
(***************************************************************************)
\* code points order the characters of a path
Ascii == <<" ", "+", "-", ".">> \o DigitChars \o UpperCase \o <<"_">> \o LowerCase

\* a < b as Python compares strings
RECURSIVE StrLess(_, _)
StrLess(a, b) ==
    IF b = <<>> THEN FALSE
    ELSE IF a = <<>> THEN TRUE
    ELSE IF Head(a) # Head(b) THEN IndexOf(Ascii, Head(a)) < IndexOf(Ascii, Head(b))
    ELSE StrLess(Tail(a), Tail(b))

\* sorted(S) for a set of distinct strings
RECURSIVE SortedNames(_)
SortedNames(S) ==
    IF S = {} THEN <<>>
    ELSE LET m == CHOOSE x \in S : \A y \in S \ {x} : StrLess(x, y)
         IN  <<m>> \o SortedNames(S \ {m})

\* raw_dir.glob('*.json'): the names that end in .json
GlobJson(names) ==
    { n \in names :
        Len(n) >= Len(DotJson) /\ SubSeq(n, Len(n) - Len(DotJson) + 1, Len(n)) = DotJson }

\* lines 129-144
NewEntry(tgt, info) ==
    [target |-> tgt,
     operation |-> info.operation,
     object_size |-> info.size,
     concurrency |-> info.concurrency,
     iteration |-> info.iteration,
     throughput_mbps |-> Zero,
     ops_per_sec |-> Zero,
     avg_latency_ms |-> Zero,
     p50_latency_ms |-> Zero,
     p90_latency_ms |-> Zero,
     p99_latency_ms |-> Zero,
     total_operations |-> Zero,
     errors |-> Zero,
     error_rate |-> Zero]

\* entry.update(parsed)
Update(entry, m) ==
    [entry EXCEPT !.throughput_mbps = m.throughput_mbps,
                  !.ops_per_sec = m.ops_per_sec,
                  !.avg_latency_ms = m.avg_latency_ms,
                  !.p50_latency_ms = m.p50_latency_ms,
                  !.p90_latency_ms = m.p90_latency_ms,
                  !.p99_latency_ms = m.p99_latency_ms,
                  !.total_operations = m.total_operations,
                  !.errors = m.errors,
                  !.error_rate = m.error_rate]

\* float(r0.get(k, 0) or 0) and int(r0.get(k, 0) or 0), lines 152-160
LegacyFloat(r0, k) == PyFloat(PyOr(PyGet0(r0, k), Zero))
LegacyInt(r0, k) == PyInt(PyOr(PyGet0(r0, k), Zero))

\* lines 152-160: the metrics read from a flat record
legacy_metrics(r0) ==
    LET m == [t |-> "metrics",
              throughput_mbps |-> LegacyFloat(r0, "throughput_mb"),
              ops_per_sec |-> LegacyFloat(r0, "ops_per_sec"),
              avg_latency_ms |-> LegacyFloat(r0, "latency_avg_ms"),
              p50_latency_ms |-> LegacyFloat(r0, "latency_p50_ms"),
              p90_latency_ms |-> LegacyFloat(r0, "latency_p90_ms"),
              p99_latency_ms |-> LegacyFloat(r0, "latency_p99_ms"),
              total_operations |-> LegacyInt(r0, "operations"),
              errors |-> LegacyInt(r0, "errors"),
              error_rate |-> LegacyFloat(r0, "error_rate")]
    IN  IF AnyRaise(<<m.throughput_mbps, m.ops_per_sec, m.avg_latency_ms, m.p50_latency_ms,
                      m.p90_latency_ms, m.p99_latency_ms, m.total_operations, m.errors,
                      m.error_rate>>)
        THEN Raise ELSE m

\* line 145
IsV2(data) == IsDict(data) /\ PyGet(data, "total") # None

\* line 149
FirstRecord(data) == IF IsList(data) /\ Len(data.v) > 0 THEN data.v[1] ELSE data

\* lines 120-161, one pass of the loop body for the file `name` holding
\* `text`: what became of the file, and the entry when there is one
process_file(tgt, name, text) ==
    LET info == parse_raw_filename(name)
        data == extract_json_from_raw(text)
        r0 == FirstRecord(data)
        parsed == IF IsV2(data) THEN parse_warp_v2(data, info.operation) ELSE legacy_metrics(r0)
        out(kind, e) == [name |-> name, kind |-> kind, entry |-> e]
    IN  IF info = None THEN out("no_match", None)
        ELSE IF ~Truthy(data) THEN out("no_json", None)
        ELSE IF ~IsV2(data) /\ ~IsDict(r0) THEN out("no_schema", None)
        ELSE IF IsRaise(parsed) THEN out("raised", None)
        ELSE out("entry", Update(NewEntry(tgt, info), parsed))

(***************************************************************************)
(* Inputs of the recoverer: a noisy prefix, one JSON document, a tail      *)
(***************************************************************************)
Texts ==
    LET Prefixes ==
            { <<>>,
              <<W("Throughput"), P(" "), N(48482205, 1), W("MiB"), P("/"), W("s"), P(" ")>>,
              <<P("}"), P(" ")>>,
              <<P("[")>> }
        RecoverDocs ==
            { Obj(<<>>),
              Obj(<<KV("a", IntNum(1))>>),
              Obj(<<KV("a", Obj(<<KV("b", IntNum(1))>>)), KV("c", None)>>),
              Obj(<<KV("a", Str(<<P("}")>>))>>),
              Obj(<<KV("a", Str(<<P("{")>>))>>),
              Obj(<<KV("a", Arr(<<IntNum(1), Obj(<<KV("b", Bool(TRUE))>>)>>))>>) }
        Tails ==
            { <<>>,
              <<P(" "), W("done")>>,
              <<P(" "), P("}")>>,
              <<P("{"), Quote, W("b"), Quote, P(":")>>,
              <<P("{"), Quote, W("b"), Quote, P(":"), P("{"), Quote, W("c"), Quote, P(":"), N(1, 1), P("}")>>,
              <<P("{"), Quote, W("b"), Quote, P(":"), Quote, P("}")>>,
              <<P(" "), W("note"), P(" "), P("{"), W("x"), P("}")>>,
              <<P(","), P("{"), Quote, W("b"), Quote, P(":"), N(2, 1), P("}"), P("]")>> }
        NoBraceTexts ==
            { <<>>, <<W("error"), P(" "), W("timeout")>>, <<P("["), N(1, 1), P("]")>>, <<P("}")>> }
    IN  { p \o Dumps(d) \o tl : p \in Prefixes, d \in RecoverDocs, tl \in Tails }
        \cup NoBraceTexts

NoValue == [t |-> "unset"]

\* report.py has not run
ReportIdle ==
    /\ summary = NoValue /\ targets = NoValue /\ df = NoValue /\ df_agg = NoValue
    /\ comparison_tables = NoValue /\ summary_stats = NoValue

\* neither function has been called on its own
UnitsIdle == call = NoValue /\ returned = NoValue

InitRecover ==
    /\ pc = "recover"
    /\ content \in Texts
    /\ result = NoValue
    /\ raw = NoValue /\ target = <<>> /\ queue = <<>> /\ entries = <<>>
    /\ last = NoValue
    /\ ReportIdle /\ UnitsIdle

\* result = extract_json_from_raw(content)
Recover ==
    /\ pc = "recover"
    /\ result' = extract_json_from_raw(content)
    /\ pc' = "recovered"
    /\ UNCHANGED <<content, raw, target, queue, entries, last, report, units>>

NextRecover == Recover

SpecRecover == InitRecover /\ [][NextRecover]_vars

(***************************************************************************)
(* Inputs of the collector: a run directory with trial files               *)
(***************************************************************************)
MaxFiles == 2

JunkLine ==
    <<P(" "), W("Throughput"), P(" "), N(48482205, 1), W("MiB"), P("/"), W("s"), P(" "),
      W("within"), P(" "), N(15, 2), P("%"), P(" "), W("Terminating"), P("."), P(" ")>>

\* a v2 document with no data at all
EmptyTotalDoc == Obj(<<KV("total", EmptyDict)>>)

V2Docs ==
    LET KC(chars, v) == [k |-> CharsKey(chars), v |-> v]
        \* the first-byte block and the document of test_parser_and_report.py
        FixtureFirstByte ==
            Obj(<<KV("average_millis", Num(41, 2)), KV("median_millis", IntNum(19)),
                  KV("p90_millis", IntNum(24)), KV("p99_millis", IntNum(26))>>)
        FixtureThroughput ==
            Obj(<<KV("measure_duration_millis", IntNum(5000)), KV("bytes", IntNum(104857600)),
                  KV("objects", IntNum(100)), KV("ops", IntNum(100))>>)
        FixtureDoc ==
            Obj(<<KV("v", IntNum(2)),
                  KV("total", Obj(<<
                      KV("total_requests", IntNum(100)), KV("total_objects", IntNum(100)),
                      KV("total_errors", IntNum(0)), KV("total_bytes", IntNum(104857600)),
                      KV("throughput", FixtureThroughput),
                      KV("requests_by_client", Obj(<<
                          KV("client1", Arr(<<Obj(<<KV("single_sized_requests",
                              Obj(<<KV("first_byte", FixtureFirstByte)>>))>>)>>))>>))>>)),
                  KV("by_op_type", Obj(<<
                      KC(<<"G", "E", "T">>, Obj(<<
                          KV("throughput", Obj(<<KV("measure_duration_millis", IntNum(5000)),
                              KV("bytes", IntNum(104857600)), KV("ops", IntNum(100))>>)),
                          KV("requests_by_client", Obj(<<>>))>>))>>))>>)
        \* a per-operation block with two clients; the first client's first
        \* segment has no latency data, its second a duration summary
        PerOpDoc ==
            Obj(<<KV("total", Obj(<<
                      KV("total_objects", IntNum(4)), KV("total_errors", IntNum(1)),
                      KV("throughput", Obj(<<KV("measure_duration_millis", IntNum(2000)),
                                            KV("bytes", IntNum(2097152))>>))>>)),
                  KV("by_op_type", Obj(<<
                      KC(<<"G", "E", "T">>, Obj(<<KV("requests_by_client", Obj(<<
                          KV("c1", Arr(<<Obj(<<>>),
                              Obj(<<KV("single_sized_requests",
                                  Obj(<<KV("dur_avg_millis", IntNum(7)),
                                        KV("dur_99_millis", IntNum(9))>>))>>)>>)),
                          KV("c2", Arr(<<Obj(<<KV("single_sized_requests",
                              Obj(<<KV("first_byte", FixtureFirstByte)>>))>>)>>))>>))>>))>>))>>)
    IN  << FixtureDoc,
           PerOpDoc,
           EmptyTotalDoc,
           Obj(<<KV("total", IntNum(5))>>),
           Obj(<<KV("total", Obj(<<KV("total_requests", IntNum(10)),
                                   KV("total_errors", IntNum(20))>>))>>),
           Obj(<<KV("total", Obj(<<KV("throughput", Obj(<<
                     KV("measure_duration_millis", IntNum(1000)),
                     KV("bytes", IntNum(-1048576)), KV("ops", IntNum(5))>>))>>))>>),
           Obj(<<KV("total", Obj(<<KV("requests_by_client",
                     Obj(<<KV("c", Arr(<<IntNum(5)>>))>>))>>))>>),
           Obj(<<KV("total", Obj(<<KV("total_requests", Str(<<W("many")>>))>>))>> ) >>

LegacyDocs ==
    LET LegacyFull ==
            Obj(<<KV("throughput_mb", IntNum(3)), KV("ops_per_sec", IntNum(2)),
                  KV("latency_avg_ms", Num(3, 2)), KV("latency_p50_ms", IntNum(1)),
                  KV("latency_p90_ms", IntNum(2)), KV("latency_p99_ms", IntNum(4)),
                  KV("operations", IntNum(10)), KV("errors", IntNum(1)),
                  KV("error_rate", Num(1, 10))>>)
        LegacyOutOfRange == Obj(<<KV("throughput_mb", IntNum(-3)), KV("error_rate", Num(3, 2))>>)
    IN  << LegacyFull,
           LegacyOutOfRange,
           Obj(<<>>),
           Obj(<<KV("note", Str(<<W("x")>>))>>),
           Obj(<<KV("throughput_mb", Str(<<W("n"), P("/"), W("a")>>)), KV("operations", IntNum(5))>>),
           Obj(<<KV("throughput_mb", None), KV("ops_per_sec", Str(<<N(2, 1)>>)),
                 KV("errors", Arr(<<>>)), KV("operations", IntNum(7))>>),
           Obj(<<KV("throughput_mb", IntNum(3)), KV("errors", Arr(<<IntNum(1)>>))>>),
           Obj(<<KV("latency_avg_ms", Obj(<<KV("x", IntNum(1))>>))>>),
           Obj(<<KV("total", None), KV("throughput_mb", IntNum(3))>>) >>

LegacyArrays ==
    << Arr(<<LegacyDocs[1]>>),
       Arr(<<LegacyDocs[1], LegacyDocs[2]>>),
       Arr(<<Obj(<<KV("note", Str(<<W("x")>>))>>), LegacyDocs[1]>>) >>

NoisyTexts ==
    << JunkLine \o Dumps(V2Docs[1]),
       JunkLine \o Dumps(Arr(<<LegacyDocs[1]>>)),
       Dumps(LegacyDocs[1]) \o <<P(" "), W("done")>>,
       Dumps(LegacyDocs[1]) \o <<P("{"), Quote, W("b"), Quote, P(":")>>,
       <<W("error"), P(" "), W("timeout")>>,
       <<P("{"), Quote, W("a"), Quote, P(":")>>,
       <<P("["), P("]")>> >>

\* the texts a trial file may hold; a file refers to its text by index
Contents ==
    LET docs == V2Docs \o LegacyDocs \o LegacyArrays
    IN  [i \in 1..Len(docs) |-> Dumps(docs[i])] \o NoisyTexts

\* the file names of a run directory; a file refers to its name by index
Names ==
    << <<"P", "U", "T", "_", "4", "K", "i", "B", "_", "c", "8", "_", "i", "1">> \o DotJson,
       <<"g", "e", "t", "_", "1", "M", "i", "B", "_", "c", "1", "_", "i", "1">> \o DotJson,
       <<"g", "e", "t", "_", "1", "M", "i", "B", "_", "c", "1", "_", "i", "2">> \o DotJson,
       <<"n", "o", "t", "e", "s">> \o DotJson,
       <<"g", "e", "t", "_", "1", "M", "_", "c", "1", "_", "i", "1", ".", "t", "x", "t">>,
       <<"g", "e", "t", "_", "1", "M", "i", "B", "_", "c", "0", "_", "i", "0">> \o DotJson >>

IsTrialName(i) == parse_raw_filename(Names[i]) # None

\* a file is [name |-> index into Names, content |-> index into Contents];
\* the files that are no trials all hold the first legacy text
Files ==
    { [name |-> n, content |-> c] : n \in {i \in DOMAIN Names : IsTrialName(i)},
                                    c \in DOMAIN Contents }
    \cup { [name |-> n, content |-> Len(V2Docs) + 1] :
             n \in {i \in DOMAIN Names : ~IsTrialName(i)} }

\* the directories of at most n files, no two with the same name
RECURSIVE Dirs(_)
Dirs(n) ==
    IF n = 0 THEN {{}}
    ELSE LET prev == Dirs(n - 1)
         IN  prev \cup UNION { { d \cup {f} :
                                  f \in { g \in Files : \A h \in d : h.name # g.name } } :
                                d \in prev }

Targets == {<<"a", "w", "s">>}

InitCollect ==
    /\ pc = "list"
    /\ raw \in { [is_dir |-> FALSE, files |-> {}] }
               \cup { [is_dir |-> TRUE, files |-> d] : d \in Dirs(MaxFiles) }
    /\ target \in Targets
    /\ queue = <<>> /\ entries = <<>>
    /\ last = NoValue
    /\ content = <<>> /\ result = NoValue
    /\ ReportIdle /\ UnitsIdle

\* the text of the file called name
TextOf(files, name) == Contents[(CHOOSE f \in files : Names[f.name] = name).content]

\* lines 114-119: no raw/ directory returns []; else the *.json paths, sorted
ListDir ==
    /\ pc = "list"
    /\ \/ /\ ~raw.is_dir
          /\ pc' = "returned"
          /\ UNCHANGED queue
       \/ /\ raw.is_dir
          /\ queue' = SortedNames(GlobJson({ Names[f.name] : f \in raw.files }))
          /\ pc' = "loop"
    /\ UNCHANGED <<content, result, raw, target, entries, last, report, units>>

\* lines 119-161: the loop body for the next path; an exception leaves
\* reparse_run_dir
ProcessFileAbort ==
    /\ pc = "loop" /\ queue # <<>>
    /\ \E r \in {process_file(target, Head(queue), TextOf(raw.files, Head(queue)))} :
           /\ last' = r
           /\ entries' = IF r.kind = "entry" THEN Append(entries, r.entry) ELSE entries
           /\ pc' = IF r.kind \in {"raised", "no_json"} THEN "raised" ELSE "loop"
    /\ queue' = Tail(queue)
    /\ UNCHANGED <<content, result, raw, target, report, units>>

ProcessFile ==
    /\ pc = "loop" /\ queue # <<>>
    /\ \E r \in {process_file(target, Head(queue), TextOf(raw.files, Head(queue)))} :
           /\ last' = r
           /\ entries' = IF r.kind = "entry" THEN Append(entries, r.entry) ELSE entries
           /\ pc' = IF r.kind = "raised" THEN "raised" ELSE "loop"
    /\ queue' = Tail(queue)
    /\ UNCHANGED <<content, result, raw, target, report, units>>

\* line 162
Return ==
    /\ pc = "loop" /\ queue = <<>>
    /\ pc' = "returned"
    /\ UNCHANGED <<content, result, raw, target, queue, entries, last, report, units>>

\* main, lines 175-180: summary.json is opened for writing, which empties
\* it, and the entries are dumped into it
WriteSummary ==
    /\ pc = "returned"
    /\ summary' = entries
    /\ pc' = "written"
    /\ UNCHANGED <<units, collect, targets, df, df_agg, comparison_tables, summary_stats>>

NextCollect == ListDir \/ ProcessFile \/ Return \/ WriteSummary

SpecCollect == InitCollect /\ [][NextCollect]_vars

(***************************************************************************)
(* Floating point arithmetic of report.py, on exact rationals and NaN      *)
(***************************************************************************)
\* a + b, -a and a * b; an operation on NaN gives NaN
NumAdd(a, b) ==
    IF IsNaN(a) \/ IsNaN(b) THEN NaN
    ELSE LET g == Gcd(a.d, b.d)
         IN  Num(a.n * (b.d \div g) + b.n * (a.d \div g), (a.d \div g) * b.d)

NumNeg(a) == IF IsNaN(a) THEN NaN ELSE [t |-> "num", n |-> -a.n, d |-> a.d]

NumMul(a, b) ==
    IF IsNaN(a) \/ IsNaN(b) THEN NaN
    ELSE LET g1 == Gcd(Abs(a.n), b.d)
             g2 == Gcd(Abs(b.n), a.d)
         IN  Num((a.n \div g1) * (b.n \div g2), (a.d \div g2) * (b.d \div g1))

\* a < b; a comparison with NaN is false
NumLess(a, b) ==
    a.t = "num" /\ b.t = "num" /\ a.n * b.d < b.n * a.d

RECURSIVE Pow10(_)
Pow10(k) == IF k = 0 THEN 1 ELSE 10 * Pow10(k - 1)

\* f"{x:.kf}": x rounded to k decimals, ties to even, as the count of
\* units of 10^-k; "nan" for NaN
Format(x, k) ==
    IF IsNaN(x) THEN [t |-> "fixed", digits |-> k, units |-> 0, nan |-> TRUE]
    ELSE LET scaled == Abs(x.n) * Pow10(k)
             q == scaled \div x.d
             r2 == 2 * (scaled % x.d)
             up == r2 > x.d \/ (r2 = x.d /\ q % 2 = 1)
             mag == IF up THEN q + 1 ELSE q
         IN  [t |-> "fixed", digits |-> k,
              units |-> IF x.n < 0 THEN -mag ELSE mag, nan |-> FALSE]

(***************************************************************************)
(* report.parse_size_to_bytes                                              *)
(* A size label is a sequence of one-character strings.                    *)
(***************************************************************************)
\* the length of the run of digits s has from index i on
RECURSIVE DigitRun(_, _)
DigitRun(s, i) == IF i <= Len(s) /\ IsDigit(s[i]) THEN 1 + DigitRun(s, i + 1) ELSE 0

\* the length of the run of blanks s has from index i on
RECURSIVE BlankRun(_, _)
BlankRun(s, i) == IF i <= Len(s) /\ s[i] = " " THEN 1 + BlankRun(s, i + 1) ELSE 0

\* [0-9]+(?:\.[0-9]+)? at the start of s: the length matched, 0 for none
NumberPrefix(s) ==
    LET a == DigitRun(s, 1)
        f == IF a + 1 <= Len(s) /\ s[a + 1] = "." THEN DigitRun(s, a + 2) ELSE 0
    IN  IF a = 0 THEN 0 ELSE IF f > 0 THEN a + 1 + f ELSE a

\* float() of a text matched by NumberPrefix
DecimalValue(s) ==
    LET a == DigitRun(s, 1)
    IN  IF a = Len(s) THEN IntNum(DecVal(s))
        ELSE NumAdd(IntNum(DecVal(SubSeq(s, 1, a))),
                    Num(DecVal(SubSeq(s, a + 2, Len(s))), Pow10(Len(s) - a - 1)))

\* [kmgt]?i?b? on a lower-case text
IsUnit(u) ==
    LET a == IF u # <<>> /\ u[1] \in {"k", "m", "g", "t"} THEN 1 ELSE 0
        b == IF a + 1 <= Len(u) /\ u[a + 1] = "i" THEN 1 ELSE 0
        c == IF a + b + 1 <= Len(u) /\ u[a + b + 1] = "b" THEN 1 ELSE 0
    IN  a + b + c = Len(u)

\* lines 52-63
UnitMult(unit) ==
    IF unit \in {<<>>, <<"b">>} THEN 1
    ELSE IF unit \in {<<"k", "i", "b">>, <<"k", "b">>, <<"k">>} THEN 1024
    ELSE IF unit \in {<<"m", "i", "b">>, <<"m", "b">>, <<"m">>} THEN 1024 * 1024
    ELSE IF unit \in {<<"g", "i", "b">>, <<"g", "b">>, <<"g">>} THEN 1024 * 1024 * 1024
    ELSE IF unit \in {<<"t", "i", "b">>, <<"t", "b">>, <<"t">>}
    THEN 1024 * 1024 * 1024 * 1024
    ELSE 1

\* lines 45-48, int(float(s)) or 0: a signed decimal (digits, a point and
\* digits, either run possibly empty) is truncated, any other text gives 0
\* (exponent notation is not among the labels modelled)
SizeFallback(s) ==
    LET signed == s # <<>> /\ Head(s) \in {"-", "+"}
        body == IF signed THEN Tail(s) ELSE s
        a == DigitRun(body, 1)
        point == a + 1 <= Len(body) /\ body[a + 1] = "."
        f == IF point THEN DigitRun(body, a + 2) ELSE 0
        whole == IF a = 0 THEN 0 ELSE DecVal(SubSeq(body, 1, a))
    IN  IF a + f >= 1 /\ a + (IF point THEN 1 ELSE 0) + f = Len(body)
        THEN (IF signed /\ Head(s) = "-" THEN -1 ELSE 1) * whole
        ELSE 0

\* size_str is str() of the cell: the label, "nan" for a cell without one
parse_size_to_bytes(size_str) ==
    LET s == Strip(size_str, " ")
        n == NumberPrefix(s)
        u == Lower(SubSeq(s, n + BlankRun(s, n + 1) + 1, Len(s)))
    IN  IF s = <<>> THEN 0
        ELSE IF n = 0 \/ ~IsUnit(u) THEN SizeFallback(s)
        ELSE Trunc(NumMul(DecimalValue(SubSeq(s, 1, n)), IntNum(UnitMult(u))))

(***************************************************************************)
(* report.load_data                                                        *)
(* A row of summary.json is a record; its fields are the keys it has.  A   *)
(* DataFrame is its set of columns and its rows; a cell a row has no field *)
(* for is NaN.  Names, operations and labels are sequences of characters,  *)
(* concurrency is an integer, a metric is a number.                        *)
(***************************************************************************)
Columns(rows) == UNION { DOMAIN rows[i] : i \in DOMAIN rows }

\* the row with r[col] = v
SetField(r, col, v) == [c \in DOMAIN r \cup {col} |-> IF c = col THEN v ELSE r[c]]

\* lines 78-102: the column, from its first alternative name that is a
\* column (df[col] = df[old]), else the default (df[col] = default)
DefaultColumn(rows, col, alternatives, default) ==
    IF col \in Columns(rows) THEN rows
    ELSE LET found == { i \in DOMAIN alternatives : alternatives[i] \in Columns(rows) }
             old == alternatives[CHOOSE i \in found : \A j \in found : i <= j]
         IN  [i \in DOMAIN rows |->
                 IF found = {} THEN SetField(rows[i], col, default)
                 ELSE IF old \in DOMAIN rows[i] THEN SetField(rows[i], col, rows[i][old])
                 ELSE rows[i]]

\* line 107: sort_values('size_bytes') uses a sort that is not stable, so
\* rows of equal size_bytes may come out in any order
SortedOrders(rows) ==
    { p \in Permutations(DOMAIN rows) :
        \A i, j \in DOMAIN rows :
            i < j => rows[p[i]].size_bytes <= rows[p[j]].size_bytes }

\* lines 77-107, before the sort; parent is input_file.parent.parent.name.
\* Line 104, pd.to_numeric(..., errors='coerce').fillna(1).astype(int), is
\* taken on cells that hold an integer or nothing; line 106 reads str() of
\* the label cell, "nan" for a cell without one
Preprocess(data, parent) ==
    LET sized == DefaultColumn(data, "object_size", <<"objectSize", "size">>, <<"0">>)
        named == DefaultColumn(sized, "target", <<>>, parent)
        typed == DefaultColumn(named, "operation", <<"op">>,
                               <<"u", "n", "k", "n", "o", "w", "n">>)
        conc == DefaultColumn(typed, "concurrency", <<"concurrent">>, 1)
        numeric == [i \in DOMAIN conc |->
                       SetField(conc[i], "concurrency",
                                IF "concurrency" \in DOMAIN conc[i]
                                THEN conc[i].concurrency ELSE 1)]
    IN  [i \in DOMAIN numeric |->
            SetField(numeric[i], "size_bytes",
                     parse_size_to_bytes(IF "object_size" \in DOMAIN numeric[i]
                                         THEN numeric[i].object_size
                                         ELSE <<"n", "a", "n">>))]

\* the DataFrame load_data returns when the sort puts row order[i] at i
load_data(data, parent, order) ==
    LET rows == Preprocess(data, parent)
    IN  [columns |-> Columns(rows), rows |-> [i \in DOMAIN rows |-> rows[order[i]]]]

(***************************************************************************)
(* report.aggregate_iterations                                             *)
(***************************************************************************)
GroupCols == {"target", "operation", "object_size", "size_bytes", "concurrency"}
\* the columns of agg_dict: six medians, two sums, one mean
AggCols == {"throughput_mbps", "ops_per_sec", "avg_latency_ms", "p50_latency_ms",
            "p90_latency_ms", "p99_latency_ms", "total_operations", "errors", "error_rate"}

GroupKey(r) == <<r.target, r.operation, r.object_size, r.size_bytes, r.concurrency>>

\* a < b for two group keys, as tuples compare
KeyLess(a, b) ==
    \/ StrLess(a[1], b[1])
    \/ a[1] = b[1] /\ StrLess(a[2], b[2])
    \/ a[1] = b[1] /\ a[2] = b[2] /\ StrLess(a[3], b[3])
    \/ a[1] = b[1] /\ a[2] = b[2] /\ a[3] = b[3] /\ a[4] < b[4]
    \/ a[1] = b[1] /\ a[2] = b[2] /\ a[3] = b[3] /\ a[4] = b[4] /\ a[5] < b[5]

RECURSIVE SortedKeys(_)
SortedKeys(S) ==
    IF S = {} THEN <<>>
    ELSE LET m == CHOOSE x \in S : \A y \in S \ {x} : KeyLess(x, y)
         IN  <<m>> \o SortedKeys(S \ {m})

\* vs in increasing order: each element is put in before the first
\* greater one
RECURSIVE SortNums(_)
SortNums(vs) ==
    LET RECURSIVE InsertNum(_, _)
        InsertNum(ws, x) ==
            IF ws = <<>> THEN <<x>>
            ELSE IF NumLess(x, Head(ws)) THEN <<x>> \o ws
            ELSE <<Head(ws)>> \o InsertNum(Tail(ws), x)
    IN  IF vs = <<>> THEN <<>>
        ELSE InsertNum(SortNums(SubSeq(vs, 1, Len(vs) - 1)), vs[Len(vs)])

SumFirst(vs) == IF vs = <<>> THEN Zero ELSE Head(vs)

RECURSIVE SumNums(_)
SumNums(vs) == IF vs = <<>> THEN Zero ELSE NumAdd(Head(vs), SumNums(Tail(vs)))

MedianLower(vs) ==
    LET sorted == SortNums(vs)
        n == Len(vs)
    IN  IF n = 0 THEN NaN ELSE sorted[(n + 1) \div 2]

\* Series.median(): NaN cells are skipped before the call
Median(vs) ==
    LET sorted == SortNums(vs)
        n == Len(vs)
    IN  IF n = 0 THEN NaN
        ELSE IF n % 2 = 1 THEN sorted[(n + 1) \div 2]
        ELSE NumDiv(NumAdd(sorted[n \div 2], sorted[n \div 2 + 1]), IntNum(2))

Mean(vs) == IF vs = <<>> THEN NaN ELSE NumDiv(SumNums(vs), IntNum(Len(vs)))

\* the row of one group; a column gives the numbers of its cells in the
\* rows of the group, NaN cells skipped
GroupRow(rows, key) ==
    LET RECURSIVE GroupValues(_, _)
        GroupValues(col, i) ==
            IF i > Len(rows) THEN <<>>
            ELSE (IF GroupKey(rows[i]) = key /\ col \in DOMAIN rows[i]
                     /\ ~IsNaN(rows[i][col])
                  THEN <<rows[i][col]>> ELSE <<>>)
                 \o GroupValues(col, i + 1)
    IN  [target |-> key[1], operation |-> key[2], object_size |-> key[3],
         size_bytes |-> key[4], concurrency |-> key[5],
         throughput_mbps |-> Median(GroupValues("throughput_mbps", 1)),
         ops_per_sec |-> Median(GroupValues("ops_per_sec", 1)),
         avg_latency_ms |-> Median(GroupValues("avg_latency_ms", 1)),
         p50_latency_ms |-> Median(GroupValues("p50_latency_ms", 1)),
         p90_latency_ms |-> Median(GroupValues("p90_latency_ms", 1)),
         p99_latency_ms |-> Median(GroupValues("p99_latency_ms", 1)),
         total_operations |-> SumNums(GroupValues("total_operations", 1)),
         errors |-> SumNums(GroupValues("errors", 1)),
         error_rate |-> Mean(GroupValues("error_rate", 1))]

\* one row per group of rows that have all the group columns, in key order;
\* KeyError when a column to aggregate is no column of the frame
aggregate_iterations(frame) ==
    IF ~((GroupCols \cup AggCols) \subseteq frame.columns)
    THEN Raise
    ELSE LET keyed == { i \in DOMAIN frame.rows : GroupCols \subseteq DOMAIN frame.rows[i] }
             keys == SortedKeys({ GroupKey(frame.rows[i]) : i \in keyed })
             rows == SelectSeq(frame.rows, LAMBDA r : GroupCols \subseteq DOMAIN r)
         IN  [t |-> "frame", rows |-> [i \in DOMAIN keys |-> GroupRow(rows, keys[i])]]

(***************************************************************************)
(* report.generate_comparison_tables                                       *)
(***************************************************************************)
\* df[col].unique(): the values of a column in the order they first appear
RECURSIVE Unique(_, _)
Unique(rows, col) ==
    IF rows = <<>> THEN <<>>
    ELSE LET u == Unique(SubSeq(rows, 1, Len(rows) - 1), col)
             x == rows[Len(rows)][col]
         IN  IF \E i \in DOMAIN u : u[i] = x THEN u ELSE Append(u, x)

\* df[df['operation'] == operation]
OpRows(rows, operation) == SelectSeq(rows, LAMBDA r : r.operation = operation)

MatchingAnyTarget(rows, tgt, size, conc) ==
    SelectSeq(rows, LAMBDA r : r.object_size = size /\ r.concurrency = conc)

\* the rows of one target, size label and concurrency
Matching(rows, tgt, size, conc) ==
    SelectSeq(rows, LAMBDA r : r.target = tgt /\ r.object_size = size /\ r.concurrency = conc)

\* sorted() of a sequence of distinct integers
RECURSIVE SortedInts(_)
SortedInts(vs) ==
    IF vs = <<>> THEN <<>>
    ELSE LET i == CHOOSE k \in DOMAIN vs : \A j \in DOMAIN vs : vs[k] <= vs[j]
         IN  <<vs[i]>> \o SortedInts(SubSeq(vs, 1, i - 1) \o SubSeq(vs, i + 1, Len(vs)))

\* the pairs <<x, y>> in the order of a loop over ys inside a loop over xs
RECURSIVE Cross(_, _)
Cross(xs, ys) ==
    IF xs = <<>> THEN <<>>
    ELSE [j \in DOMAIN ys |-> <<Head(xs), ys[j]>>] \o Cross(Tail(xs), ys)

PercentDeltaReversed(b, c) == NumMul(NumDiv(NumAdd(b, NumNeg(c)), b), IntNum(100))

\* lines 318, 319 and 380: (c - b) / b * 100
PercentDelta(b, c) == NumMul(NumDiv(NumAdd(c, NumNeg(b)), b), IntNum(100))

\* lines 318-319: 0 unless the baseline is positive (NaN is not)
GuardedDelta(b, c) == IF NumLess(Zero, b) THEN PercentDelta(b, c) ELSE Zero

\* lines 321-332
ComparisonRow(b, c, size, conc) ==
    [size |-> size,
     concurrency |-> conc,
     baseline_throughput |-> Format(b.throughput_mbps, 2),
     comparison_throughput |-> Format(c.throughput_mbps, 2),
     throughput_delta |-> GuardedDelta(b.throughput_mbps, c.throughput_mbps),
     baseline_p99 |-> Format(b.p99_latency_ms, 2),
     comparison_p99 |-> Format(c.p99_latency_ms, 2),
     latency_delta |-> GuardedDelta(b.p99_latency_ms, c.p99_latency_ms),
     baseline_errors |-> Trunc(b.errors),
     comparison_errors |-> Trunc(c.errors)]

\* line 300: the labels of op_df.sort_values('size_bytes'), each once; the
\* sort is not stable, so labels of equal size_bytes may come in any order
SizeOrders(op_df) ==
    { Unique([i \in DOMAIN op_df |-> op_df[p[i]]], "object_size") : p \in SortedOrders(op_df) }

\* lines 299-332: the rows of one operation for one order of the labels
OpTable(op_df, baseline_target, comparison_target, sizes) ==
    LET pairs == Cross(sizes, SortedInts(Unique(op_df, "concurrency")))
        matched == SelectSeq(pairs, LAMBDA sc :
                       /\ Matching(op_df, baseline_target, sc[1], sc[2]) # <<>>
                       /\ Matching(op_df, comparison_target, sc[1], sc[2]) # <<>>)
    IN  [i \in DOMAIN matched |->
            ComparisonRow(Matching(op_df, baseline_target, matched[i][1], matched[i][2])[1],
                          Matching(op_df, comparison_target, matched[i][1], matched[i][2])[1],
                          matched[i][1], matched[i][2])]

\* lines 287 and 340
TooFewTargets(tgts) == Len(tgts) < 2

\* the dicts generate_comparison_tables can return: operation -> rows
generate_comparison_tables(rows, tgts) ==
    LET ops == Unique(rows, "operation")
        \* the tables of the operations ops[i..], one dict per choice of orders
        RECURSIVE TablesFrom(_)
        TablesFrom(i) ==
            IF i > Len(ops) THEN {<<>>}
            ELSE { <<[k |-> ops[i],
                      v |-> OpTable(OpRows(rows, ops[i]), tgts[1], tgts[2], sizes)]>>
                     \o rest :
                     sizes \in SizeOrders(OpRows(rows, ops[i])),
                     rest \in TablesFrom(i + 1) }
    IN  IF TooFewTargets(tgts) THEN {<<>>} ELSE TablesFrom(1)

(***************************************************************************)
(* report.calculate_summary_stats                                          *)
(***************************************************************************)

\* lines 340-349
Placeholder(tgts) ==
    [baseline |-> IF tgts # <<>> THEN tgts[1] ELSE <<"N", "/", "A">>,
     comparison |-> <<"N", "/", "A">>,
     verdict |-> [text |-> "Insufficient data", avg |-> None],
     verdict_class |-> "neutral",
     avg_delta |-> Zero,
     top_improvements |-> <<>>,
     top_regressions |-> <<>>]

\* lines 357-387: the deltas of one operation, sizes and concurrencies in
\* the order they appear
OpDeltas(op_df, operation, baseline_target, comparison_target) ==
    LET pairs == Cross(Unique(op_df, "object_size"), Unique(op_df, "concurrency"))
        b(sc) == Matching(op_df, baseline_target, sc[1], sc[2])
        c(sc) == Matching(op_df, comparison_target, sc[1], sc[2])
        kept == SelectSeq(pairs, LAMBDA sc :
                    /\ b(sc) # <<>> /\ c(sc) # <<>>
                    /\ NumLess(Zero, b(sc)[1].throughput_mbps))
    IN  [i \in DOMAIN kept |->
            [operation |-> operation,
             size |-> kept[i][1],
             concurrency |-> kept[i][2],
             delta |-> PercentDelta(b(kept[i])[1].throughput_mbps,
                                    c(kept[i])[1].throughput_mbps),
             baseline_value |-> b(kept[i])[1].throughput_mbps,
             comparison_value |-> c(kept[i])[1].throughput_mbps]]

\* list.sort(key=delta) is stable: d goes in before the first element that
\* is greater (ascending) or smaller (descending) than it
RECURSIVE SortDeltas(_, _)
SortDeltas(ds, descending) ==
    LET RECURSIVE InsertDelta(_, _)
        InsertDelta(es, d) ==
            IF es = <<>> THEN <<d>>
            ELSE IF (IF descending THEN NumLess(Head(es).delta, d.delta)
                     ELSE NumLess(d.delta, Head(es).delta))
            THEN <<d>> \o es
            ELSE <<Head(es)>> \o InsertDelta(Tail(es), d)
    IN  IF ds = <<>> THEN <<>>
        ELSE InsertDelta(SortDeltas(SubSeq(ds, 1, Len(ds) - 1), descending), ds[Len(ds)])

TakeAll(xs, n) == xs

\* xs[:n]
Take(xs, n) == SubSeq(xs, 1, IF Len(xs) < n THEN Len(xs) ELSE n)

TopCount == 3

RECURSIVE SumDeltas(_)
SumDeltas(ds) == IF ds = <<>> THEN Zero ELSE NumAdd(Head(ds).delta, SumDeltas(Tail(ds)))

\* line 401
AverageDeltaUndivided(ds) == IF ds = <<>> THEN Zero ELSE SumDeltas(ds)

AverageDelta(ds) == IF ds = <<>> THEN Zero ELSE NumDiv(SumDeltas(ds), IntNum(Len(ds)))

VerdictSwapped(avg_delta) ==
    IF NumLess(IF NumLess(avg_delta, Zero) THEN NumNeg(avg_delta) ELSE avg_delta, IntNum(10))
    THEN [verdict |-> [text |-> "Equivalent Performance", avg |-> None],
          verdict_class |-> "success"]
    ELSE IF NumLess(IntNum(10), avg_delta)
    THEN [verdict |-> [text |-> "Slower", avg |-> Format(avg_delta, 1)],
          verdict_class |-> "danger"]
    ELSE [verdict |-> [text |-> "Faster", avg |-> Format(avg_delta, 1)],
          verdict_class |-> "success"]

\* lines 403-411
Verdict(avg_delta) ==
    IF NumLess(IF NumLess(avg_delta, Zero) THEN NumNeg(avg_delta) ELSE avg_delta, IntNum(10))
    THEN [verdict |-> [text |-> "Equivalent Performance", avg |-> None],
          verdict_class |-> "success"]
    ELSE IF NumLess(IntNum(10), avg_delta)
    THEN [verdict |-> [text |-> "Faster", avg |-> Format(avg_delta, 1)],
          verdict_class |-> "success"]
    ELSE [verdict |-> [text |-> "Slower", avg |-> Format(avg_delta, 1)],
          verdict_class |-> "danger"]

calculate_summary_stats(rows, tgts) ==
    IF TooFewTargets(tgts) THEN Placeholder(tgts)
    ELSE LET ops == Unique(rows, "operation")
             \* lines 352-387: the deltas of the operations ops[i..]
             RECURSIVE AllDeltas(_)
             AllDeltas(i) ==
                 IF i > Len(ops) THEN <<>>
                 ELSE OpDeltas(OpRows(rows, ops[i]), ops[i], tgts[1], tgts[2])
                      \o AllDeltas(i + 1)
             deltas == SortDeltas(AllDeltas(1), FALSE)
             regressions ==
                 Take(SelectSeq(deltas, LAMBDA d : NumLess(d.delta, IntNum(-10))), TopCount)
             improvements ==
                 Take(SortDeltas(SelectSeq(deltas, LAMBDA d : NumLess(IntNum(10), d.delta)), TRUE),
                      TopCount)
             avg_delta == AverageDelta(deltas)
         IN  [baseline |-> tgts[1],
              comparison |-> tgts[2],
              verdict |-> Verdict(avg_delta).verdict,
              verdict_class |-> Verdict(avg_delta).verdict_class,
              avg_delta |-> avg_delta,
              top_improvements |-> improvements,
              top_regressions |-> regressions]

(***************************************************************************)
(* Inputs of the report: a summary.json and a list of targets              *)
(***************************************************************************)
MaxRows == 4

\* the rows a summary is made of; the first is the valid row of the test
TrialRows ==
    LET Aws == <<"a", "w", "s">>
        Other == <<"o", "t", "h", "e", "r">>
        Get == <<"g", "e", "t">>
        Put == <<"p", "u", "t">>
        OneMiB == <<"1", "M", "i", "B">>
        AlsoOneMiB == <<"1", "0", "2", "4", "K", "i", "B">>
        FourKiB == <<"4", "K", "i", "B">>
        \* a row as reparse_run_dir writes it
        Trial(tgt, op, size, conc, iter, thr, p99, errs) ==
            [target |-> tgt, operation |-> op, object_size |-> size, concurrency |-> conc,
             iteration |-> iter,
             throughput_mbps |-> IntNum(thr), ops_per_sec |-> IntNum(thr),
             avg_latency_ms |-> IntNum(20), p50_latency_ms |-> IntNum(19),
             p90_latency_ms |-> IntNum(24), p99_latency_ms |-> IntNum(p99),
             total_operations |-> IntNum(200), errors |-> IntNum(errs),
             error_rate |-> Num(errs, 200)]
        \* the second row of test_report_load_data_and_aggregate
        ErrorRow ==
            [target |-> Other, operation |-> Get, object_size |-> OneMiB, concurrency |-> 8,
             iteration |-> 1,
             throughput_mbps |-> Zero, ops_per_sec |-> Zero, errors |-> Zero,
             error_rate |-> IntNum(1),
             error |-> <<"i", "n", "v", "a", "l", "i", "d", "_", "r", "a", "w", "_",
                         "o", "u", "t", "p", "u", "t">>]
    IN  << Trial(Aws, Get, OneMiB, 8, 1, 40, 26, 0),
           ErrorRow,
           Trial(Other, Get, OneMiB, 8, 2, 60, 13, 2),
           Trial(Aws, Put, FourKiB, 1, 1, 0, 0, 0),
           Trial(Other, Put, FourKiB, 1, 1, 20, 5, 0),
           Trial(Aws, Get, AlsoOneMiB, 8, 1, 50, 30, 0),
           Trial(Other, Get, AlsoOneMiB, 8, 1, 55, 45, 1),
           Trial(Aws, Get, OneMiB, 8, 2, 80, 0, 4),
           Trial(Aws, Get, OneMiB, 8, 3, 50, 26, 2) >>

\* the increasing sequences of at most n indices into TrialRows: a summary
\* lists its rows in one fixed order, as the sorted file names give it
RECURSIVE Picks(_)
Picks(n) ==
    IF n = 0 THEN {<<>>}
    ELSE LET prev == Picks(n - 1)
         IN  prev \cup UNION { { Append(q, i) :
                                   i \in { j \in DOMAIN TrialRows :
                                             \A k \in DOMAIN q : q[k] < j } } :
                               q \in { t \in prev : Len(t) = n - 1 } }

Summaries == { [i \in DOMAIN q |-> TrialRows[q[i]]] : q \in Picks(MaxRows) }

\* --targets, split at the commas; the functions also take an empty list
TargetLists ==
    LET aws == TrialRows[1].target
        other == TrialRows[2].target
        gone == <<"g", "o", "n", "e">>
    IN  { <<>>, <<aws>>, <<aws, aws>>, <<aws, other>>, <<other, aws>>, <<aws, gone>> }

\* the name of the directory two levels above summary.json
ParentName == <<"r", "u", "n">>

\* reparse_warp_raw.py has not run
CollectIdle ==
    /\ content = <<>> /\ result = NoValue /\ raw = NoValue /\ target = <<>>
    /\ queue = <<>> /\ entries = <<>> /\ last = NoValue

InitReport ==
    /\ pc = "load"
    /\ summary \in Summaries
    /\ targets \in TargetLists
    /\ df = NoValue /\ df_agg = NoValue
    /\ comparison_tables = NoValue /\ summary_stats = NoValue
    /\ CollectIdle /\ UnitsIdle

\* report.py lines 855-856 and 68-108: no data ends the program with status 2
LoadData ==
    /\ pc = "load"
    /\ \/ /\ summary = <<>>
          /\ pc' = "exit"
          /\ UNCHANGED df
       \/ /\ summary # <<>>
          /\ \E order \in SortedOrders(Preprocess(summary, ParentName)) :
                 df' = load_data(summary, ParentName, order)
          /\ pc' = "aggregate"
    /\ UNCHANGED <<units, collect, summary, targets, df_agg, comparison_tables, summary_stats>>

\* lines 859-860 and 110-126: a KeyError leaves main
Aggregate ==
    /\ pc = "aggregate"
    /\ \/ /\ IsRaise(aggregate_iterations(df))
          /\ pc' = "raised"
          /\ UNCHANGED df_agg
       \/ /\ ~IsRaise(aggregate_iterations(df))
          /\ df_agg' = aggregate_iterations(df).rows
          /\ pc' = "compare"
    /\ UNCHANGED <<units, collect, summary, targets, df, comparison_tables, summary_stats>>

\* lines 869-870 and 285-336
CompareTables ==
    /\ pc = "compare"
    /\ comparison_tables' \in generate_comparison_tables(df_agg, targets)
    /\ pc' = "summarise"
    /\ UNCHANGED <<units, collect, summary, targets, df, df_agg, summary_stats>>

\* lines 873-874 and 338-421
SummaryStats ==
    /\ pc = "summarise"
    /\ summary_stats' = calculate_summary_stats(df_agg, targets)
    /\ pc' = "reported"
    /\ UNCHANGED <<units, collect, summary, targets, df, df_agg, comparison_tables>>

NextReport == LoadData \/ Aggregate \/ CompareTables \/ SummaryStats

SpecReport == InitReport /\ [][NextReport]_vars

(***************************************************************************)
(* parse_warp_v2 called on its own, as test_parse_warp_v2_extracts_metrics *)
(* calls it: a decoded v2 document and an operation                        *)
(***************************************************************************)
\* the documents: a total block put together from an aggregate throughput
\* block, a byte total, request totals and a client breakdown, each present
\* or not, with or without a per-operation block for GET; and the document
\* of the test
ExtractDocs ==
    LET num(w, v) == KV(w, IntNum(v))
        first_byte(avg, p50, p90, p99) ==
            KV("first_byte", Obj(<<num("average_millis", avg), num("median_millis", p50),
                                   num("p90_millis", p90), num("p99_millis", p99)>>))
        seg(members) == Obj(<<KV("single_sized_requests", Obj(members))>>)
        clients(kvs) == <<KV("requests_by_client", Obj(kvs))>>
        Throughputs ==
            { <<>>,
              <<KV("throughput", Obj(<<num("measure_duration_millis", 5000),
                    num("bytes", 104857600), num("objects", 100), num("ops", 100)>>))>>,
              <<KV("throughput", Obj(<<num("measure_duration_millis", 2000),
                    num("bytes", 0), num("ops", 0)>>))>>,
              <<KV("throughput", Obj(<<num("measure_duration_millis", 2000),
                    num("objects", 7)>>))>>,
              <<KV("throughput", Obj(<<num("measure_duration_millis", 0),
                    num("bytes", 5), num("ops", 5)>>))>>,
              <<KV("throughput", Obj(<<num("bytes", 1048576), num("ops", 3)>>))>>,
              <<KV("throughput", Obj(<<num("measure_duration_millis", 1000),
                    num("ops", 0), num("objects", 7)>>))>> }
        ByteTotals == { <<>>, <<num("total_bytes", 2097152)>> }
        RequestTotals ==
            { <<>>,
              <<num("total_requests", 10), num("total_errors", 1)>>,
              <<num("total_objects", 4), num("total_errors", 1)>>,
              <<num("total_requests", 0), num("total_objects", 6), num("total_errors", 3)>> }
        AggregateClients ==
            { <<>>, clients(<<KV("client1", Arr(<<seg(<<first_byte(21, 19, 24, 26)>>)>>))>>) }
        OpClients ==
            { <<>>,
              clients(<<>>),
              clients(<<KV("c1", Arr(<<Obj(<<>>)>>))>>),
              clients(<<KV("c1", Arr(<<Obj(<<>>),
                                       seg(<<num("dur_avg_millis", 7),
                                             num("dur_99_millis", 9)>>)>>)),
                        KV("c2", Arr(<<seg(<<first_byte(1, 2, 3, 4)>>)>>))>>),
              clients(<<KV("c1", Arr(<<>>)),
                        KV("c2", Arr(<<seg(<<first_byte(1, 2, 3, 4)>>)>>))>>),
              clients(<<KV("c1", Arr(<<seg(<<first_byte(5, 6, 7, 8),
                                             num("dur_avg_millis", 3)>>),
                                       seg(<<first_byte(1, 2, 3, 4)>>)>>))>>),
              clients(<<KV("c1", seg(<<num("dur_avg_millis", 0), num("dur_median_millis", 5),
                                       num("dur_90_millis", 6), num("dur_99_millis", 8)>>))>>),
              clients(<<KV("c1", Arr(<<seg(<<KV("first_byte", EmptyDict),
                                             num("dur_avg_millis", 4),
                                             num("dur_median_millis", 0)>>)>>))>>) }
        OpBlocks ==
            { <<>> } \cup
            { <<KV("by_op_type", Obj(<<
                  [k |-> CharsKey(<<"G", "E", "T">>),
                   v |-> Obj(<<KV("throughput", Obj(<<num("measure_duration_millis", 4000),
                                   num("bytes", 4194304), num("ops", 8)>>))>> \o c)]>>))>> :
              c \in OpClients }
    IN  { Obj(<<KV("total", Obj(t \o b \o r \o a))>> \o o) :
            t \in Throughputs, b \in ByteTotals, r \in RequestTotals,
            a \in AggregateClients, o \in OpBlocks }
        \cup {V2Docs[1]}

InitExtract ==
    /\ pc = "extract"
    /\ call \in { [data |-> d, operation |-> o] :
                    d \in ExtractDocs, o \in {<<"g", "e", "t">>, <<"p", "u", "t">>} }
    /\ returned = NoValue
    /\ CollectIdle /\ ReportIdle

\* parsed = parse_warp_v2(data, operation)
Extract ==
    /\ pc = "extract"
    /\ returned' = parse_warp_v2(call.data, call.operation)
    /\ pc' = "extracted"
    /\ UNCHANGED <<call, collect, report>>

SpecExtract == InitExtract /\ [][Extract]_vars

\* the names parse_raw_filename is called with: an operation, a size
\* label, a worker count, a trial index and an ending, joined as the
\* collector's files are named, and the name of the test that matches nothing
FileNames ==
    LET Ops == { <<"g", "e", "t">>, <<"G", "e", "T">>, <<"m", "i", "x", "e", "d">>,
                 <<"g", "3", "t">>, <<>> }
        Labels == { <<"1", "M", "i", "B">>, <<"7", "5", "0", "M", "i", "B">>,
                    <<"a", "_", "c", "2", "_", "i", "3">>, <<"1", "\n", "M">>, <<>> }
        Workers == { <<"1">>, <<"1", "2", "8">>, <<"0">>, <<"0", "1">>, <<"x">>, <<>> }
        Trials == { <<"1">>, <<"3">>, <<"0">>, <<>> }
        Endings == { DotJson, <<".", "J", "S", "O", "N">>, <<"x", "j", "s", "o", "n">>,
                     DotJson \o <<"\n">>, DotJson \o <<"\n", "\n">> }
    IN  { o \o <<"_">> \o l \o <<"_", "c">> \o w \o <<"_", "i">> \o i \o e :
            o \in Ops, l \in Labels, w \in Workers, i \in Trials, e \in Endings }
        \cup { <<"n", "o", "t", "-", "a", "-", "m", "a", "t", "c", "h">> \o DotJson }

InitFilename ==
    /\ pc = "match"
    /\ call \in { [name |-> n] : n \in FileNames }
    /\ returned = NoValue
    /\ CollectIdle /\ ReportIdle

\* info = parse_raw_filename(name)
MatchName ==
    /\ pc = "match"
    /\ returned' = parse_raw_filename(call.name)
    /\ pc' = "matched"
    /\ UNCHANGED <<call, collect, report>>

SpecFilename == InitFilename /\ [][MatchName]_vars

\* the aggregated frames calculate_summary_stats is called with: five
\* conditions of one operation and size, each with a baseline row of
\* throughput 100 and a comparison row of one of five throughputs
InitSummary ==
    LET levels == 1..5
        row(tgt, conc, thr) ==
            [target |-> tgt, operation |-> <<"g", "e", "t">>,
             object_size |-> <<"1", "M", "i", "B">>, size_bytes |-> 1048576,
             concurrency |-> conc,
             throughput_mbps |-> IntNum(thr), ops_per_sec |-> IntNum(thr),
             avg_latency_ms |-> IntNum(20), p50_latency_ms |-> IntNum(19),
             p90_latency_ms |-> IntNum(24), p99_latency_ms |-> IntNum(26),
             total_operations |-> IntNum(200), errors |-> Zero, error_rate |-> Zero]
    IN  /\ pc = "summarise"
        /\ targets = <<TrialRows[1].target, TrialRows[2].target>>
        /\ df_agg \in { [i \in 1..10 |->
                            IF i <= 5 THEN row(targets[1], i, 100)
                            ELSE row(targets[2], i - 5, thr[i - 5])] :
                          thr \in [levels -> {40, 85, 110, 120, 150}] }
        /\ summary = NoValue /\ df = NoValue
        /\ comparison_tables = NoValue /\ summary_stats = NoValue
        /\ CollectIdle /\ UnitsIdle

SpecSummary == InitSummary /\ [][SummaryStats]_vars

(***************************************************************************)
(* s3tests/functional/conftest.py                                          *)
(* A list file is [exists, lines]; a line and a test name are sequences of *)
(* characters.  A marker is a string.                                      *)
(***************************************************************************)
\* lines 9-22 and 24-33: the two lists as loaded at import, and the markers
\* the hook adds to each item, in the order it adds them
pytest_collection_modifyitems(skip_file, compliance_file, items) ==
    LET RECURSIVE strip(_)
        strip(l) ==
            IF l # <<>> /\ Head(l) \in {" ", "\n"} THEN strip(Tail(l))
            ELSE IF l # <<>> /\ l[Len(l)] \in {" ", "\n"}
            THEN strip(SubSeq(l, 1, Len(l) - 1))
            ELSE l
        load(file) ==
            IF ~file.exists THEN {}
            ELSE { strip(file.lines[i]) :
                     i \in { j \in DOMAIN file.lines : strip(file.lines[j]) # <<>> } }
        _SKIP_TESTS == load(skip_file)
        _COMPLIANCE_TESTS == load(compliance_file)
    IN  IF _SKIP_TESTS = {} THEN [i \in DOMAIN items |-> <<>>]
        ELSE [i \in DOMAIN items |->
                 (IF items[i] \in _SKIP_TESTS THEN <<"skip">> ELSE <<>>)
                 \o (IF items[i] \in _COMPLIANCE_TESTS
                     THEN <<"splunk_compliance_test">> ELSE <<>>)]

\* the list files and the collected tests of a session
InitConftest ==
    LET a == <<"t", "_", "a">>
        b == <<"t", "_", "b">>
        c == <<"t", "_", "c">>
        ListFiles ==
            { [exists |-> FALSE, lines |-> <<>>] }
            \cup { [exists |-> TRUE, lines |-> ls] :
                     ls \in { <<>>, << <<"\n">> >>, << a \o <<"\n">> >>,
                              << a \o <<"\n">>, b >>,
                              << <<" ">> \o b \o <<" ", "\n">>, <<" ", "\n">>,
                                 c \o <<"\n">> >> } }
    IN  /\ pc = "collect"
        /\ call \in { [skip_file |-> s, compliance_file |-> k, items |-> t] :
                        s \in ListFiles, k \in ListFiles,
                        t \in { <<>>, <<a>>, <<b, a>>, <<a, b, c>>, <<c, c>> } }
        /\ returned = NoValue
        /\ CollectIdle /\ ReportIdle

\* pytest calls the hook once the tests are collected
ModifyItems ==
    /\ pc = "collect"
    /\ returned' = pytest_collection_modifyitems(call.skip_file, call.compliance_file,
                                                 call.items)
    /\ pc' = "collected"
    /\ UNCHANGED <<call, collect, report>>

SpecConftest == InitConftest /\ [][ModifyItems]_vars

(***************************************************************************)
(* Claims                                                                  *)
(***************************************************************************)
\* the text from its first opening brace on
JsonStr(text) == SubSeq(text, Find(text, P("{")), Len(text))

\* the text holds a well-formed JSON value at its first opening brace
HasFirstObject(text) ==
    Find(text, P("{")) # 0 /\ ParseValue(JsonStr(text), 1).ok

FirstObject(text) == ParseValue(JsonStr(text), 1).val

\* C1: for a text holding a valid JSON object at its first brace, followed
\* by trailing non-JSON text or a truncated second fragment,
\* extract_json_from_raw returns that first well-formed object.
C1_FirstObjectOnly ==
    (pc = "recovered" /\ HasFirstObject(content)) => result = FirstObject(content)

(***************************************************************************)
(* The file the collector worked on last                                   *)
(***************************************************************************)
Processed == last # NoValue
LastFile == CHOOSE f \in raw.files : Names[f.name] = last.name
LastInfo == parse_raw_filename(last.name)
LastDoc == extract_json_from_raw(Contents[LastFile.content])

\* the legacy array the text with index c holds, None when it holds none
ArrayBase == Len(V2Docs) + Len(LegacyDocs)
LegacyArrayAt(c) ==
    IF c \in (ArrayBase + 1)..(ArrayBase + Len(LegacyArrays)) THEN LegacyArrays[c - ArrayBase]
    ELSE IF Contents[c] = JunkLine \o Dumps(LegacyArrays[1]) THEN LegacyArrays[1]
    ELSE None

\* the flat legacy record the text with index c holds, None when it holds none
LegacyRecordAt(c) ==
    IF c \in (Len(V2Docs) + 1)..ArrayBase THEN LegacyDocs[c - Len(V2Docs)] ELSE None

\* C2: parse_warp_v2 and the legacy branch never raise for a decoded
\* document of a recognised shape, and a document with no data yields a
\* record whose nine metric fields are all 0.
C2_ExtractorTotal ==
    (Processed /\ last.kind \notin {"no_match", "no_json", "no_schema"}) =>
        /\ last.kind = "entry"
        /\ Contents[LastFile.content] = Dumps(EmptyTotalDoc)
              => last.entry = NewEntry(target, LastInfo)

\* the file, taken on its own, yields a record
YieldsRecord(f) ==
    process_file(target, Names[f.name], Contents[f.content]).kind = "entry"

\* C3: a file that fails never aborts the run, and every file that yields a
\* record on its own has its record in the returned list.
C3_SkipAndContinue ==
    /\ pc # "raised"
    /\ (pc = "returned" /\ raw.is_dir) =>
          \A f \in raw.files :
              YieldsRecord(f) =>
                  \E i \in DOMAIN entries :
                      entries[i] = process_file(target, Names[f.name],
                                                Contents[f.content]).entry

\* the name is a trial name and the text recovers to a v2 document or to a
\* flat mapping (alone or first in an array)
Eligible(f) ==
    /\ IsTrialName(f.name)
    /\ LET doc == extract_json_from_raw(Contents[f.content])
       IN  IsV2(doc) \/ IsDict(FirstRecord(doc))

Tags(e) == <<e.target, e.operation, e.object_size, e.concurrency, e.iteration>>

\* C4: the returned list holds exactly one record per eligible file, tagged
\* with the target and the fields of the file name, in file name order.
C4_OneRecordPerTrial ==
    (pc = "returned" /\ raw.is_dir) =>
        LET names == SortedNames({ Names[f.name] : f \in { g \in raw.files : Eligible(g) } })
        IN  [i \in DOMAIN entries |-> Tags(entries[i])]
              = [i \in DOMAIN names |-> Tags(NewEntry(target, parse_raw_filename(names[i])))]

\* C5: a trial file holding a legacy array of one or more flat records yields
\* a record whose metrics are those of the first element.
C5_ArrayFirstElement ==
    (Processed /\ last.kind # "no_match" /\ LegacyArrayAt(LastFile.content) # None) =>
        /\ last.kind = "entry"
        /\ last.entry = Update(NewEntry(target, LastInfo),
                               legacy_metrics(LegacyArrayAt(LastFile.content).v[1]))

\* a legacy field as documented: the number stored, 0 when the value is
\* absent or no number
LenientFloat(r0, k) ==
    IF IsRaise(LegacyFloat(r0, k)) THEN Zero ELSE LegacyFloat(r0, k)
LenientInt(r0, k) ==
    IF IsRaise(LegacyInt(r0, k)) THEN Zero ELSE LegacyInt(r0, k)

\* C10: reading a flat legacy record never raises, and every metric field is
\* the number stored under its name, 0 when that value is absent or no number.
C10_LegacyLenient ==
    (Processed /\ last.kind # "no_match" /\ LegacyRecordAt(LastFile.content) # None) =>
        LET r0 == LegacyRecordAt(LastFile.content)
        IN  /\ last.kind = "entry"
            /\ last.entry.throughput_mbps = LenientFloat(r0, "throughput_mb")
            /\ last.entry.ops_per_sec = LenientFloat(r0, "ops_per_sec")
            /\ last.entry.avg_latency_ms = LenientFloat(r0, "latency_avg_ms")
            /\ last.entry.p50_latency_ms = LenientFloat(r0, "latency_p50_ms")
            /\ last.entry.p90_latency_ms = LenientFloat(r0, "latency_p90_ms")
            /\ last.entry.p99_latency_ms = LenientFloat(r0, "latency_p99_ms")
            /\ last.entry.total_operations = LenientInt(r0, "operations")
            /\ last.entry.errors = LenientInt(r0, "errors")
            /\ last.entry.error_rate = LenientFloat(r0, "error_rate")

NonNegative(x) == x.t = "num" /\ x.n >= 0
InUnitInterval(x) == x.t = "num" /\ x.n >= 0 /\ x.n <= x.d

MetricsNonNegative(e) ==
    /\ NonNegative(e.throughput_mbps) /\ NonNegative(e.ops_per_sec)
    /\ NonNegative(e.avg_latency_ms) /\ NonNegative(e.p50_latency_ms)
    /\ NonNegative(e.p90_latency_ms) /\ NonNegative(e.p99_latency_ms)
    /\ NonNegative(e.total_operations) /\ NonNegative(e.errors)

RECURSIVE CarriesNegative(_)
CarriesNegative(v) ==
    CASE v.t = "num" -> v.n < 0
      [] v.t = "nan" -> TRUE
      [] v.t = "str" -> ~IsRaise(PyFloat(v)) /\ CarriesNegative(PyFloat(v))
      [] v.t = "arr" -> \E i \in 1..Len(v.v) : CarriesNegative(v.v[i])
      [] v.t = "obj" -> \E i \in 1..Len(v.v) : CarriesNegative(v.v[i].v)
      [] OTHER -> FALSE

Loaded == pc \in {"aggregate", "raised", "compare", "summarise", "reported"}
Aggregated == pc \in {"compare", "summarise", "reported"}

\* a summary row that records a parse failure
IsErrorRow(r) ==
    \/ "error" \in DOMAIN r
    \/ /\ r.error_rate = IntNum(1) /\ r.throughput_mbps = Zero
       /\ "total_operations" \notin DOMAIN r

ValidRows == SelectSeq(summary, LAMBDA r : ~IsErrorRow(r))

\* C6: load_data returns the rows of the summary that record no parse
\* failure, and aggregate_iterations yields one row per condition of those.
C6_ErrorRowsExcluded ==
    /\ Loaded =>
          /\ Len(df.rows) = Len(ValidRows)
          /\ \A i \in DOMAIN df.rows : ~IsErrorRow(df.rows[i])
    /\ Aggregated =>
          Len(df_agg) = Cardinality({ <<ValidRows[i].target, ValidRows[i].operation,
                                         ValidRows[i].object_size, ValidRows[i].concurrency>> :
                                       i \in DOMAIN ValidRows })

\* the conditions (operation, size label, concurrency) that have a row
\* under the baseline and under the comparison target
MatchedKeys ==
    { <<df_agg[i].operation, df_agg[i].object_size, df_agg[i].concurrency>> :
        i \in { j \in DOMAIN df_agg :
                  /\ df_agg[j].target = targets[1]
                  /\ \E m \in DOMAIN df_agg :
                        /\ df_agg[m].target = targets[2]
                        /\ df_agg[m].operation = df_agg[j].operation
                        /\ df_agg[m].object_size = df_agg[j].object_size
                        /\ df_agg[m].concurrency = df_agg[j].concurrency } }

\* the throughput a target has under a condition
ThroughputOf(tgt, key) ==
    df_agg[CHOOSE i \in DOMAIN df_agg :
               /\ df_agg[i].target = tgt /\ df_agg[i].operation = key[1]
               /\ df_agg[i].object_size = key[2] /\ df_agg[i].concurrency = key[3]
          ].throughput_mbps

\* (comparison - baseline) / baseline * 100 under a condition
KeyDelta(key) ==
    LET b == ThroughputOf(targets[1], key)
        c == ThroughputOf(targets[2], key)
    IN  NumMul(NumDiv(NumAdd(c, NumNeg(b)), b), IntNum(100))

RECURSIVE SumOver(_)
SumOver(keys) ==
    IF keys = {} THEN Zero
    ELSE LET k == CHOOSE x \in keys : TRUE
         IN  NumAdd(KeyDelta(k), SumOver(keys \ {k}))

PositiveKeys == { k \in MatchedKeys : ThroughputOf(targets[1], k).n > 0 }

\* every throughput_delta of the comparison tables
RECURSIVE TableDeltas(_)
TableDeltas(tables) ==
    IF tables = <<>> THEN <<>>
    ELSE [i \in DOMAIN Head(tables).v |-> Head(tables).v[i].throughput_delta]
         \o TableDeltas(Tail(tables))

PresentTargets ==
    { targets[i] : i \in { j \in DOMAIN targets :
                             j <= 2 /\ \E m \in DOMAIN df_agg : df_agg[m].target = targets[j] } }

\* C9: with fewer than two distinct targets present the comparison table is
\* empty and the verdict is the neutral placeholder.
C9_NoOpBelowTwoTargets ==
    (pc = "reported" /\ Cardinality(PresentTargets) < 2) =>
        /\ comparison_tables = <<>>
        /\ summary_stats.verdict.text = "Insufficient data"
        /\ summary_stats.verdict_class = "neutral"

(***************************************************************************)
(* Claims on the recoverer, continued                                      *)
(***************************************************************************)
\* the lengths k of a prefix of the text that holds no brace and is
\* followed by a JSON object that runs to the end of the text
JunkLengths(text) ==
    { k \in 0..(Len(text) - 1) :
        /\ \A i \in 1..k : text[i] \notin {P("{"), P("}")}
        /\ text[k + 1] = P("{")
        /\ ParseValue(text, k + 1).ok
        /\ ParseValue(text, k + 1).pos = Len(text) + 1 }

\* C11: for a text made of text without a brace followed by a valid JSON
\* object, extract_json_from_raw returns that object unchanged: the value
\* the object's text denotes, whose serialisation is that text again.
C11_LeadingJunkStripped ==
    pc = "recovered" =>
        \A k \in JunkLengths(content) :
            /\ result = ParseValue(content, k + 1).val
            /\ IsDict(result)
            /\ Dumps(result) = SubSeq(content, k + 1, Len(content))

\* a state of C11: a text with leading junk and an object with a member
\* has been recovered
C11_Witness ==
    /\ pc = "recovered"
    /\ \E k \in JunkLengths(content) : k >= 1
    /\ IsDict(result) /\ Len(result.v) >= 1

(***************************************************************************)
(* Claims on the collector, continued                                      *)
(***************************************************************************)
\* the text of the file the loop is about to work on holds no opening brace
NextHasNoBrace ==
    pc = "loop" /\ queue # <<>> /\ Find(TextOf(raw.files, Head(queue)), P("{")) = 0

\* C12: for a text with no opening brace extract_json_from_raw returns
\* None, not an error, and reparse_run_dir skips that file, adds no record
\* for it and goes on with the next file.
C12_NoBraceSkipped ==
    [][NextHasNoBrace =>
          /\ extract_json_from_raw(TextOf(raw.files, Head(queue))) = None
          /\ last'.kind \in {"no_json", "no_match"}
          /\ entries' = entries
          /\ queue' = Tail(queue)
          /\ pc' = "loop"]_vars

\* a state of C12: the run has returned the record of a later file after
\* it skipped a trial file whose text holds no opening brace
C12_Witness ==
    /\ pc = "returned" /\ Len(entries) = 1 /\ last.kind = "entry"
    /\ \E f \in raw.files :
           /\ IsTrialName(f.name)
           /\ Find(Contents[f.content], P("{")) = 0
           /\ StrLess(Names[f.name], last.name)

(***************************************************************************)
(* Claims on parse_warp_v2                                                 *)
(* What the claims call a block is read off the document of the call: a    *)
(* field is stated when its key is there with a value other than null.     *)
(***************************************************************************)
Extracted == pc = "extracted"
Stated(v) == v # None
NonZero(v) == Stated(v) /\ v # Zero

\* the aggregate block and the block of the operation, which is the
\* aggregate block when the document has none for the operation
AggregateBlock == PyGet(call.data, "total")
OperationBlock ==
    LET by_op == PyGet(call.data, "by_op_type")
        block == IF Stated(by_op) THEN PyGetKey(by_op, CharsKey(Upper(call.operation)))
                 ELSE None
    IN  IF Stated(block) THEN block ELSE AggregateBlock

\* the throughput block: the aggregate one, else the one of the operation
ThroughputBlock ==
    IF Stated(PyGet(AggregateBlock, "throughput")) THEN PyGet(AggregateBlock, "throughput")
    ELSE IF Stated(PyGet(OperationBlock, "throughput")) THEN PyGet(OperationBlock, "throughput")
    ELSE EmptyDict

\* measure_duration_millis / 1000, None when the duration is zero or absent
DurationSeconds ==
    LET millis == PyGet(ThroughputBlock, "measure_duration_millis")
    IN  IF NonZero(millis) THEN NumDiv(millis, IntNum(1000)) ELSE None

\* C13: throughput_mbps is bytes / (1024*1024) / duration_seconds, the
\* duration taken from the aggregate throughput block, else from the one of
\* the operation; bytes is the throughput block's bytes, else (when that is
\* absent or 0) the aggregate total_bytes, else 0; with a zero or absent
\* duration throughput_mbps is 0; 104857600 bytes in 5000 ms give 20.0.
C13_ThroughputFormula ==
    Extracted =>
        LET bytes == IF NonZero(PyGet(ThroughputBlock, "bytes"))
                     THEN PyGet(ThroughputBlock, "bytes")
                     ELSE IF Stated(PyGet(AggregateBlock, "total_bytes"))
                     THEN PyGet(AggregateBlock, "total_bytes")
                     ELSE Zero
        IN  /\ returned.throughput_mbps =
                   IF Stated(DurationSeconds)
                   THEN NumDiv(NumDiv(bytes, IntNum(1024 * 1024)), DurationSeconds)
                   ELSE Zero
            /\ (/\ PyGet(ThroughputBlock, "bytes") = IntNum(104857600)
                /\ PyGet(ThroughputBlock, "measure_duration_millis") = IntNum(5000))
               => returned.throughput_mbps = IntNum(20)

\* a state of C13: the aggregate block has no throughput block and the
\* throughput comes out of the block of the operation
C13_Witness ==
    /\ Extracted
    /\ ~Stated(PyGet(AggregateBlock, "throughput"))
    /\ Stated(PyGet(OperationBlock, "throughput"))
    /\ returned.throughput_mbps = IntNum(1)

\* the operations, read off the document as C14 words it
StatedOps ==
    LET ops == PyGet(ThroughputBlock, "ops")
        objects == PyGet(ThroughputBlock, "objects")
        requests == IF Stated(PyGet(AggregateBlock, "total_requests"))
                    THEN PyGet(AggregateBlock, "total_requests")
                    ELSE PyGet(AggregateBlock, "total_objects")
    IN  IF Stated(ops) THEN ops
        ELSE IF Stated(objects) THEN objects
        ELSE IF NonZero(requests) /\ Stated(DurationSeconds) THEN requests
        ELSE Zero

\* C14: ops_per_sec is ops / duration_seconds, ops being the throughput
\* block's ops when present, else its objects, else (both absent, request
\* total and duration nonzero) the aggregate request total; an ops of 0
\* that the block states is not replaced; with a zero or absent duration
\* ops_per_sec is 0.
C14_OpsPrecedence ==
    Extracted =>
        returned.ops_per_sec =
            IF Stated(DurationSeconds) THEN NumDiv(StatedOps, DurationSeconds) ELSE Zero

Sub(block, w) == IF IsDict(block) THEN PyGet(block, w) ELSE None

\* the segments a client is listed with
SegmentsOf(listed) == IF IsList(listed) THEN listed.v ELSE <<listed>>

\* the segment exposes a first-byte block or a duration summary
HasFirstByte(seg) ==
    LET fb == Sub(Sub(seg, "single_sized_requests"), "first_byte")
    IN  IsDict(fb) /\ Len(fb.v) > 0
Exposes(seg) ==
    HasFirstByte(seg) \/ Stated(Sub(Sub(seg, "single_sized_requests"), "dur_avg_millis"))

\* average, median, p90 and p99 of a segment that exposes them, a
\* first-byte block coming first; a value that is absent or 0 reads as 0,
\* a median that is absent or 0 as the average
SegmentLatency(seg) ==
    LET s == Sub(seg, "single_sized_requests")
        fb == Sub(s, "first_byte")
        or0(v) == IF Stated(v) THEN v ELSE Zero
    IN  IF HasFirstByte(seg)
        THEN <<or0(Sub(fb, "average_millis")), or0(Sub(fb, "median_millis")),
               or0(Sub(fb, "p90_millis")), or0(Sub(fb, "p99_millis"))>>
        ELSE <<Sub(s, "dur_avg_millis"),
               IF NonZero(Sub(s, "dur_median_millis")) THEN Sub(s, "dur_median_millis")
               ELSE Sub(s, "dur_avg_millis"),
               or0(Sub(s, "dur_90_millis")), or0(Sub(s, "dur_99_millis"))>>

\* the latency of the first segment of the first client that exposes one;
\* all 0 when that client has none
FirstClientLatency(breakdown) ==
    IF ~IsDict(breakdown) \/ Len(breakdown.v) = 0 THEN <<Zero, Zero, Zero, Zero>>
    ELSE LET segs == SegmentsOf(breakdown.v[1].v)
             found == { i \in DOMAIN segs : Exposes(segs[i]) }
         IN  IF found = {} THEN <<Zero, Zero, Zero, Zero>>
             ELSE SegmentLatency(segs[CHOOSE i \in found : \A j \in found : i <= j])

ReturnedLatency ==
    <<returned.avg_latency_ms, returned.p50_latency_ms, returned.p90_latency_ms,
      returned.p99_latency_ms>>

\* the client breakdown of the operation block when it has clients, else
\* the aggregate one
BreakdownInUse ==
    LET own == Sub(OperationBlock, "requests_by_client")
    IN  IF IsDict(own) /\ Len(own.v) > 0 THEN own
        ELSE Sub(AggregateBlock, "requests_by_client")

\* C16: the four latency fields come from the first segment, in order,
\* under the first client of the breakdown, that exposes a first-byte block
\* or a duration summary, a first-byte block taking precedence within the
\* segment; no later segment and no other client changes the result.
C16_FirstSegmentOfFirstClient ==
    Extracted => ReturnedLatency = FirstClientLatency(BreakdownInUse)

\* a state of C16: the first client's first segment exposes nothing, its
\* second a duration summary, and a second client a first-byte block
C16_Witness ==
    /\ Extracted
    /\ IsDict(BreakdownInUse) /\ Len(BreakdownInUse.v) = 2
    /\ LET segs == SegmentsOf(BreakdownInUse.v[1].v)
       IN  Len(segs) = 2 /\ ~Exposes(segs[1]) /\ Exposes(segs[2])
    /\ ReturnedLatency = <<IntNum(7), IntNum(7), Zero, IntNum(9)>>

\* no segment of any client of the operation block exposes latency data
OperationBlockYieldsNone ==
    LET own == Sub(OperationBlock, "requests_by_client")
    IN  IsDict(own) =>
            \A c \in DOMAIN own.v :
                \A i \in DOMAIN SegmentsOf(own.v[c].v) : ~Exposes(SegmentsOf(own.v[c].v)[i])

\* C17: when the operation block yields no latency data (its client
\* breakdown is absent, empty, or without a segment that exposes a
\* first-byte block or a duration summary), the latency fields come from
\* the aggregate client breakdown.
C17_FallbackToAggregate ==
    (Extracted /\ OperationBlockYieldsNone) =>
        ReturnedLatency = FirstClientLatency(Sub(AggregateBlock, "requests_by_client"))

(***************************************************************************)
(* Claims on parse_raw_filename                                            *)
(***************************************************************************)
Matched == pc = "matched"

\* the ways to read a name as <letters>_<size>_c<digits>_i<digits>.json:
\* <<a, j, q>> with the letters name[1..a], the size name[a+2..j-1], the
\* first digits name[j+2..q-3] and the second name[q..] up to .json
Readings(name) ==
    LET n == Len(name)
        letters == { a \in 1..(n - 1) :
                       name[a + 1] = "_" /\ \A i \in 1..a : IsLetter(name[i]) }
        workers == { j \in 1..(n - 1) : name[j] = "_" /\ name[j + 1] = "c" }
        trials == { q \in 3..(n - 5) :
                      /\ name[q - 2] = "_" /\ name[q - 1] = "i"
                      /\ \A i \in q..(n - 5) : IsDigit(name[i])
                      /\ SubSeq(name, n - 4, n) = <<".", "j", "s", "o", "n">> }
    IN  { rd \in letters \X workers \X trials :
            /\ rd[1] + 2 < rd[2] /\ rd[2] + 4 < rd[3]
            /\ \A i \in (rd[2] + 2)..(rd[3] - 3) : IsDigit(name[i]) }

\* what the name reads as: the operation in lower case, the size label as
\* written, the two numbers as integers
ReadAs(name, rd) ==
    [t |-> "info",
     operation |-> Lower(SubSeq(name, 1, rd[1])),
     size |-> SubSeq(name, rd[1] + 2, rd[2] - 1),
     concurrency |-> DecVal(SubSeq(name, rd[2] + 2, rd[3] - 3)),
     iteration |-> DecVal(SubSeq(name, rd[3], Len(name) - 5))]

\* C18: parse_raw_filename maps every name of the form
\* <letters>_<size>_c<digits>_i<digits>.json to the operation in lower
\* case, the size as the literal label and concurrency and iteration as
\* integers, and every other name to nothing.
C18_FilenameForm ==
    Matched =>
        IF Readings(call.name) = {} THEN returned = None
        ELSE \E rd \in Readings(call.name) : returned = ReadAs(call.name, rd)

(***************************************************************************)
(* Claims on the trial numbers of a record                                 *)
(***************************************************************************)
\* C19: every record the collector produces has concurrency >= 1 and
\* iteration >= 1, whatever file name the filename pattern accepts.
C19_PositiveTrialNumbers ==
    \A i \in DOMAIN entries : entries[i].concurrency >= 1 /\ entries[i].iteration >= 1

(***************************************************************************)
(* Claims on aggregate_iterations                                          *)
(***************************************************************************)
\* the condition of a row: target, operation, size label and concurrency
Condition(r) == <<r.target, r.operation, r.object_size, r.concurrency>>

\* the numbers a column has in the rows of df of one condition
RECURSIVE CellsFrom(_, _, _)
CellsFrom(cond, col, i) ==
    IF i > Len(df.rows) THEN <<>>
    ELSE (IF Condition(df.rows[i]) = cond /\ col \in DOMAIN df.rows[i]
             /\ ~IsNaN(df.rows[i][col])
          THEN <<df.rows[i][col]>> ELSE <<>>) \o CellsFrom(cond, col, i + 1)

\* the k-th smallest of vs: fewer than k are smaller, at least k are no greater
Ranked(vs, k) ==
    CHOOSE x \in Range(vs) :
        /\ Cardinality({ i \in DOMAIN vs : NumLess(vs[i], x) }) < k
        /\ Cardinality({ i \in DOMAIN vs : ~NumLess(x, vs[i]) }) >= k

\* the middle value, or the midpoint of the two middle values
MiddleOf(vs) ==
    IF vs = <<>> THEN NaN
    ELSE NumDiv(NumAdd(Ranked(vs, (Len(vs) + 1) \div 2), Ranked(vs, Len(vs) \div 2 + 1)),
                IntNum(2))

RECURSIVE TotalOf(_)
TotalOf(vs) == IF vs = <<>> THEN Zero ELSE NumAdd(TotalOf(Tail(vs)), Head(vs))

AverageOf(vs) == IF vs = <<>> THEN NaN ELSE NumDiv(TotalOf(vs), IntNum(Len(vs)))

\* C20: aggregate_iterations yields exactly one row per distinct (target,
\* operation, size label, concurrency) of its input, two labels of the same
\* byte count staying apart; in each row throughput_mbps, ops_per_sec and
\* the four latency fields are the median over the iterations of the group,
\* total_operations and errors the sum, and error_rate the mean.
C20_OneRowPerCondition ==
    Aggregated =>
        /\ { Condition(df_agg[i]) : i \in DOMAIN df_agg }
               = { Condition(df.rows[i]) : i \in DOMAIN df.rows }
        /\ \A i, j \in DOMAIN df_agg : Condition(df_agg[i]) = Condition(df_agg[j]) => i = j
        /\ \A i \in DOMAIN df_agg :
              LET cells(col) == CellsFrom(Condition(df_agg[i]), col, 1)
              IN  /\ \A col \in {"throughput_mbps", "ops_per_sec", "avg_latency_ms",
                                   "p50_latency_ms", "p90_latency_ms", "p99_latency_ms"} :
                         df_agg[i][col] = MiddleOf(cells(col))
                  /\ df_agg[i].total_operations = TotalOf(cells("total_operations"))
                  /\ df_agg[i].errors = TotalOf(cells("errors"))
                  /\ df_agg[i].error_rate = AverageOf(cells("error_rate"))

\* a state of C20: three iterations of one condition, with throughputs 40,
\* 80 and 50, give the median 50 and the sum of their operations, next to a
\* row for the label 1024KiB of the same byte count
C20_Witness ==
    /\ Aggregated
    /\ \E i, j \in DOMAIN df_agg :
          /\ df_agg[i].object_size = <<"1", "M", "i", "B">>
          /\ df_agg[j].object_size = <<"1", "0", "2", "4", "K", "i", "B">>
          /\ df_agg[i].size_bytes = df_agg[j].size_bytes
          /\ df_agg[i].target = df_agg[j].target
          /\ Len(CellsFrom(Condition(df_agg[i]), "throughput_mbps", 1)) = 3
          /\ df_agg[i].throughput_mbps = IntNum(50)
          /\ df_agg[i].total_operations = IntNum(600)
          /\ df_agg[i].error_rate = Num(1, 100)

(***************************************************************************)
(* Claims on generate_comparison_tables                                    *)
(***************************************************************************)
Compared == pc \in {"summarise", "reported"}

TwoDistinctTargets == Len(targets) >= 2 /\ targets[1] # targets[2]

\* the rows of the comparison tables, each with the operation of its table
RECURSIVE TableRows(_)
TableRows(tables) ==
    IF tables = <<>> THEN <<>>
    ELSE [i \in DOMAIN Head(tables).v |-> [operation |-> Head(tables).k,
                                           row |-> Head(tables).v[i]]]
         \o TableRows(Tail(tables))

RowKey(tr) == <<tr.operation, tr.row.size, tr.row.concurrency>>

\* C21: with two distinct targets the comparison table has exactly one row
\* for each (operation, size label, concurrency) that has an aggregated row
\* under both the baseline and the comparison target, and no row for a key
\* present under only one of them.
C21_OneRowPerMatchedKey ==
    (Compared /\ TwoDistinctTargets) =>
        LET trs == TableRows(comparison_tables)
        IN  /\ { RowKey(trs[i]) : i \in DOMAIN trs } = MatchedKeys
            /\ \A i, j \in DOMAIN trs : RowKey(trs[i]) = RowKey(trs[j]) => i = j

\* a state of C21: a key under both targets and a key under one only
C21_Witness ==
    /\ Compared /\ TwoDistinctTargets
    /\ Len(TableRows(comparison_tables)) >= 1
    /\ \E i \in DOMAIN df_agg :
          <<df_agg[i].operation, df_agg[i].object_size, df_agg[i].concurrency>>
              \notin MatchedKeys

\* the value a target has in a column under a key
CellOf(tgt, key, col) ==
    df_agg[CHOOSE i \in DOMAIN df_agg :
               /\ df_agg[i].target = tgt /\ df_agg[i].operation = key[1]
               /\ df_agg[i].object_size = key[2] /\ df_agg[i].concurrency = key[3]
          ][col]

\* (c - b) / b * 100
RelativeChange(b, c) == NumMul(NumDiv(NumAdd(c, NumNeg(b)), b), IntNum(100))

Summarised == pc = "reported" /\ Len(targets) >= 2

\* x < y for two numbers, by cross-multiplication
Below(x, y) == x.t = "num" /\ y.t = "num" /\ x.n * y.d < y.n * x.d

\* C23: the verdict is "Equivalent Performance" when the absolute value of
\* the average delta is below 10, "Faster" when the average delta is greater
\* than 10, and "Slower" in every other case.
C23_VerdictThresholds ==
    Summarised =>
        LET avg == summary_stats.avg_delta
        IN  summary_stats.verdict.text =
                (IF Below(IntNum(-10), avg) /\ Below(avg, IntNum(10))
                 THEN "Equivalent Performance"
                 ELSE IF Below(IntNum(10), avg) THEN "Faster" ELSE "Slower")

\* a state of C23: an average delta above 10 read as Faster
C23_Witness ==
    /\ Summarised
    /\ Below(IntNum(10), summary_stats.avg_delta)
    /\ summary_stats.verdict.text = "Faster"
    /\ summary_stats.verdict_class = "success"

\* C27: a "Slower" verdict of class danger is produced only when the
\* average throughput delta is negative.
C27_SlowerOnlyWhenNegative ==
    (Summarised /\ (summary_stats.verdict.text = "Slower"
                      \/ summary_stats.verdict_class = "danger")) =>
        Below(summary_stats.avg_delta, Zero)

\* the matched keys of a positive baseline whose delta is above 10, and
\* those whose delta is below -10
Improved == { k \in PositiveKeys : Below(IntNum(10), KeyDelta(k)) }
Regressed == { k \in PositiveKeys : Below(KeyDelta(k), IntNum(-10)) }

EntryKey(d) == <<d.operation, d.size, d.concurrency>>

\* the list holds min(3, |keys|) entries of distinct keys among keys, each
\* with its delta, and no key left out comes before a listed one
TopOf(list, keys, descending) ==
    /\ Len(list) = (IF Cardinality(keys) < 3 THEN Cardinality(keys) ELSE 3)
    /\ \A i \in DOMAIN list : EntryKey(list[i]) \in keys
                               /\ list[i].delta = KeyDelta(EntryKey(list[i]))
    /\ \A i, j \in DOMAIN list : EntryKey(list[i]) = EntryKey(list[j]) => i = j
    /\ \A i, j \in DOMAIN list :
          i < j => IF descending THEN ~Below(list[i].delta, list[j].delta)
                   ELSE ~Below(list[j].delta, list[i].delta)
    /\ \A k \in keys \ { EntryKey(list[i]) : i \in DOMAIN list } :
          \A i \in DOMAIN list :
              IF descending THEN ~Below(list[i].delta, KeyDelta(k))
              ELSE ~Below(KeyDelta(k), list[i].delta)

\* C24: top_improvements holds at most 3 entries, all with delta > 10, in
\* descending order, the largest such deltas; top_regressions holds at most
\* 3 entries, all with delta < -10, in ascending order, the most negative
\* such deltas; the two lists share no entry.
C24_TopThree ==
    Summarised =>
        /\ TopOf(summary_stats.top_improvements, Improved, TRUE)
        /\ TopOf(summary_stats.top_regressions, Regressed, FALSE)
        /\ \A i \in DOMAIN summary_stats.top_improvements :
              \A j \in DOMAIN summary_stats.top_regressions :
                  EntryKey(summary_stats.top_improvements[i])
                      # EntryKey(summary_stats.top_regressions[j])

\* a state of C24: four deltas above 10 of which three are listed, the one
\* of 20 left out, and one regression
C24_Witness ==
    /\ Summarised
    /\ Cardinality(Improved) = 4 /\ Cardinality(Regressed) = 1
    /\ Len(summary_stats.top_improvements) = 3
    /\ summary_stats.top_improvements[1].delta = IntNum(50)
    /\ summary_stats.top_improvements[3].delta = IntNum(20)
    /\ \E k \in Improved : KeyDelta(k) = IntNum(20)
          /\ \A i \in 1..3 : EntryKey(summary_stats.top_improvements[i]) # k
    /\ Len(summary_stats.top_regressions) = 1

(***************************************************************************)
(* Claims on the order of the aggregator's input                           *)
(***************************************************************************)
\* the frame with its rows in the order p
Reordered(frame, p) == [frame EXCEPT !.rows = [i \in DOMAIN frame.rows |-> frame.rows[p[i]]]]

RowOrders(n) == { p \in [1..n -> 1..n] : \A i, j \in 1..n : p[i] = p[j] => i = j }

\* C26: the result of aggregate_iterations does not depend on the order of
\* its input: every permutation of the same rows gives the same set of
\* rows with the same reduced values (stated where aggregate_iterations
\* has just returned).
C26_OrderIndependent ==
    pc = "compare" =>
        \A p \in RowOrders(Len(df.rows)) :
            LET again == aggregate_iterations(Reordered(df, p))
            IN  ~IsRaise(again) /\ Range(again.rows) = Range(df_agg)

\* a state of C26: four rows in two conditions, one with three iterations
\* of different throughputs and error counts
C26_Witness ==
    /\ pc = "compare"
    /\ Len(df.rows) = 4 /\ Len(df_agg) = 2
    /\ \E i \in DOMAIN df_agg :
          /\ Len(CellsFrom(Condition(df_agg[i]), "throughput_mbps", 1)) = 3
          /\ Cardinality(Range(CellsFrom(Condition(df_agg[i]), "errors", 1))) = 3

(***************************************************************************)
(* Claims on the summary the reparse tool writes                           *)
(***************************************************************************)
\* C25: for every existing run directory summary.json is written as a full
\* replacement holding exactly the records collected, one per trial that
\* yields a record; with no such trial (a missing raw/ included) an empty
\* array is written, and the invocation does not fail.
C25_SummaryAlwaysWritten ==
    /\ pc # "raised"
    /\ pc = "written" =>
          /\ summary = entries
          /\ Len(summary) = Cardinality({ f \in raw.files : YieldsRecord(f) })

(***************************************************************************)
(* Claims on pytest_collection_modifyitems                                 *)
(***************************************************************************)
\* the names a list file lists: its lines without the blanks around them,
\* the empty ones left out
Listed(file) ==
    IF ~file.exists THEN {}
    ELSE { SelectSeq(file.lines[i], LAMBDA ch : ch \notin {" ", "\n"}) :
             i \in DOMAIN file.lines } \ {<<>>}

\* C28: every collected test whose name is in the compliance list gets the
\* splunk_compliance_test marker and every test whose name is in the skip
\* list gets the skip marker, whatever the other list holds, an empty or
\* missing skip list included.
C28_MarkersIndependent ==
    pc = "collected" =>
        \A i \in DOMAIN call.items :
            /\ call.items[i] \in Listed(call.compliance_file)
                   => \E m \in DOMAIN returned[i] : returned[i][m] = "splunk_compliance_test"
            /\ call.items[i] \in Listed(call.skip_file)
                   => \E m \in DOMAIN returned[i] : returned[i][m] = "skip"

====
